---- MODULE Spec2Model ----
(***************************************************************************)
(* Scoring engine of the physiological threat intelligence backend:        *)
(* rolling robust baseline, trust scores, anomaly aggregation with         *)
(* narrative, and the attack simulator (backend/model.py and the class     *)
(* versions under backend/models/).                                        *)
(*                                                                         *)
(* Numbers.  A float is either NaN (the empty tuple) or an exact rational  *)
(* <<num, den>> in lowest terms with den > 0.  Metric values are whole     *)
(* multiples of one tick, and one tick is 1e-6, the epsilon of _mad, so    *)
(* that the epsilon floor and the ordinary MAD are both within reach of    *)
(* small integers.  Every other quantity of the engine (z, scores) is a    *)
(* ratio and does not depend on the unit.                                  *)
(* The fraction argument of simulate_attack is kept as the IEEE double it  *)
(* is, because int(n_rows * fraction) depends on how the product rounds.   *)
(***************************************************************************)
EXTENDS Integers, Sequences, FiniteSets, TLC

VARIABLES
    df,        \* the series handed to the engine (rows ascending by date)
    df2,       \* a second series, for a second call of build_robust_baseline
    window,    \* the window argument of build_robust_baseline
    mode,      \* the mode argument of simulate_attack
    fraction,  \* the fraction argument of simulate_attack (a double)
    rng,       \* the process-wide random generator: the draws a call takes
    out,       \* what the last call on df returned
    out2,      \* what the last call on df2 returned
    global_df, \* the cohort series of the federated comparison
    db         \* the health_records table and its AUTOINCREMENT counter

vars == <<df, df2, window, mode, fraction, rng, out, out2, global_df, db>>

\* out and out2 before the call
None == [op |-> "none"]

\* db where no table is opened
NoDb == [op |-> "none"]

\* the sequence <<F(lo), ..., F(hi)>>, computed once, by halves
RECURSIVE TabRange(_, _, _)
TabRange(F(_), lo, hi) ==
    IF lo > hi THEN <<>>
    ELSE IF lo = hi THEN <<F(lo)>>
    ELSE TabRange(F, lo, (lo + hi) \div 2) \o TabRange(F, ((lo + hi) \div 2) + 1, hi)

\* the sequence <<F(1), ..., F(n)>>
Tab(F(_), n) == TabRange(F, 1, n)

(***************************************************************************)
(* Floats                                                                  *)
(***************************************************************************)
NaN == <<>>

IsNaN(x) == x = NaN

Abs(i) == IF i < 0 THEN -i ELSE i

RECURSIVE GCD(_, _)
GCD(a, b) == IF b = 0 THEN Abs(a) ELSE GCD(b, a % b)

LCM(a, b) == (a \div GCD(a, b)) * b

\* the rational n/d in lowest terms, d > 0
Q(n, d) ==
    LET s == IF d < 0 THEN -1 ELSE 1
        g == GCD(Abs(n), Abs(d))
    IN  <<(s * n) \div g, (s * d) \div g>>

R(i) == <<i, 1>>

FAdd(a, b) ==
    IF IsNaN(a) \/ IsNaN(b) THEN NaN
    ELSE IF a[2] = 1 /\ b[2] = 1 THEN <<a[1] + b[1], 1>>
    ELSE LET l == LCM(a[2], b[2])
         IN  Q(a[1] * (l \div a[2]) + b[1] * (l \div b[2]), l)

FNeg(a) == IF IsNaN(a) THEN NaN ELSE <<-a[1], a[2]>>

FSub(a, b) == FAdd(a, FNeg(b))

FMul(a, b) ==
    IF IsNaN(a) \/ IsNaN(b) THEN NaN
    ELSE IF a[2] = 1 /\ b[2] = 1 THEN <<a[1] * b[1], 1>>
    ELSE LET g1 == GCD(Abs(a[1]), b[2])
             g2 == GCD(Abs(b[1]), a[2])
         IN  Q((a[1] \div g1) * (b[1] \div g2), (a[2] \div g2) * (b[2] \div g1))

\* b is never zero where the engine divides (MAD is floored)
FDiv(a, b) ==
    IF IsNaN(a) \/ IsNaN(b) THEN NaN
    ELSE FMul(a, Q(b[2], b[1]))

FAbs(a) == IF IsNaN(a) THEN NaN ELSE <<Abs(a[1]), a[2]>>

\* a < b as floats compare: false as soon as one side is NaN
FLt(a, b) ==
    /\ ~IsNaN(a)
    /\ ~IsNaN(b)
    /\ IF a[2] = b[2] THEN a[1] < b[1]
       ELSE LET l == LCM(a[2], b[2])
            IN  a[1] * (l \div a[2]) < b[1] * (l \div b[2])

FGt(a, b) == FLt(b, a)

FGe(a, b) == ~IsNaN(a) /\ ~IsNaN(b) /\ ~FLt(a, b)

\* Python's min(a, b): the first argument unless the second is smaller
PyMin(a, b) == IF FLt(b, a) THEN b ELSE a

PyMaxSwapped(a, b) == IF FGt(a, b) THEN a ELSE b

\* Python's max(a, b): the first argument unless the second is greater
PyMax(a, b) == IF FGt(b, a) THEN b ELSE a

\* format(x, ".<k>f") for scale = 10^k: x rounded to the nearest 1/scale, as
\* the integer count of 1/scale units
Round(x, scale) ==
    LET n == x[1] * scale
        d == x[2]
    IN  IF n >= 0 THEN (2 * n + d) \div (2 * d)
        ELSE -((2 * (-n) + d) \div (2 * d))

(***************************************************************************)
(* Metrics and rows                                                        *)
(***************************************************************************)
METRICS == <<"sleep_hours", "resting_hr", "hrv", "steps", "calories", "weight">>

MetricIdx == DOMAIN METRICS

\* d['metric'].replace('_', ' ') in the narrative
Label(m) ==
    CASE METRICS[m] = "sleep_hours" -> "sleep hours"
      [] METRICS[m] = "resting_hr" -> "resting hr"
      [] OTHER -> METRICS[m]

Row(u, d, vs) == [user_id |-> u, date |-> d, vals |-> vs]

\* the column of metric m, one float per row
Column(frame, m) == Tab(LAMBDA i : frame[i].vals[m], Len(frame))

NotNa(xs) == SelectSeq(xs, LAMBDA x : ~IsNaN(x))

(***************************************************************************)
(* Median and MAD                                                          *)
(***************************************************************************)
\* the k-th smallest of a non-empty sequence of integers
KthSmallest(xs, k) ==
    CHOOSE v \in {xs[i] : i \in DOMAIN xs} :
        /\ Cardinality({i \in DOMAIN xs : xs[i] < v}) < k
        /\ Cardinality({i \in DOMAIN xs : xs[i] <= v}) >= k

\* twice the median of a non-empty sequence of integers
Median2(xs) ==
    LET n == Len(xs)
    IN  IF n % 2 = 1 THEN 2 * KthSmallest(xs, (n + 1) \div 2)
        ELSE KthSmallest(xs, n \div 2) + KthSmallest(xs, n \div 2 + 1)

\* the values of a sequence without NaN, as whole ticks
Ticks(xs) == Tab(LAMBDA i : xs[i][1], Len(xs))

\* Series.median(): the median of the values that are not NaN
Median(xs) ==
    LET nn == NotNa(xs)
    IN  IF Len(nn) = 0 THEN NaN ELSE Q(Median2(Ticks(nn)), 2)

\* 1e-6, in ticks
MadEpsilon == 1

\* _mad with a floor of half the epsilon
MadHalfFloor(xs) ==
    IF \E i \in DOMAIN xs : IsNaN(xs[i]) THEN Q(MadEpsilon, 2)
    ELSE LET m2  == Median2(Ticks(xs))
             dev == Tab(LAMBDA i : Abs(2 * xs[i][1] - m2), Len(xs))
             mad == Q(Median2(dev), 4)
         IN  IF FGt(mad, Q(MadEpsilon, 2)) THEN mad ELSE Q(MadEpsilon, 2)

\* _mad: np.median of |series - median| is NaN as soon as the series holds a
\* NaN, and NaN > 1e-6 is false, so the epsilon is returned
_mad(xs) ==
    IF \E i \in DOMAIN xs : IsNaN(xs[i]) THEN R(MadEpsilon)
    ELSE LET m2  == Median2(Ticks(xs))
             dev == Tab(LAMBDA i : Abs(2 * xs[i][1] - m2), Len(xs))
             mad == Q(Median2(dev), 4)
         IN  IF FGt(mad, R(MadEpsilon)) THEN mad ELSE R(MadEpsilon)

(***************************************************************************)
(* build_robust_baseline                                                   *)
(***************************************************************************)
\* min_periods = max(5, window // 2)
MinPeriods(w) == IF w \div 2 > 5 THEN w \div 2 ELSE 5

\* a window that reaches back to the first row
WindowExpanding(col, i, w) == SubSeq(col, 1, i)

\* the rows a rolling window of w rows ending at row i covers
WindowOf(col, i, w) == SubSeq(col, IF i - w + 1 < 1 THEN 1 ELSE i - w + 1, i)

\* the rolling statistics with min_periods left to its default, the window
\* size
RollingFullWindow(col, i, w) ==
    LET win == WindowOf(col, i, w)
    IN  IF Len(NotNa(win)) >= w
        THEN [median |-> Median(win), mad |-> _mad(win)]
        ELSE [median |-> NaN, mad |-> NaN]

\* out[m].rolling(window, min_periods).median() and .apply(_mad) at row i:
\* defined once the window holds min_periods values that are not NaN; _mad is
\* applied to the whole window, its NaN included
Rolling(col, i, w) ==
    LET win == WindowOf(col, i, w)
    IN  IF Len(NotNa(win)) >= MinPeriods(w)
        THEN [median |-> Median(win), mad |-> _mad(win)]
        ELSE [median |-> NaN, mad |-> NaN]

ShiftNone(col, i, w) == Rolling(col, i, w)

\* .shift(1): row i carries the rolling statistics of row i - 1
Shift1(col, i, w) ==
    IF i = 1 THEN [median |-> NaN, mad |-> NaN] ELSE Rolling(col, i - 1, w)

\* the frame with the columns <m>_median and <m>_mad attached
build_robust_baseline(frame, w) ==
    LET cols == Tab(LAMBDA m : Column(frame, m), Len(METRICS))
        WithBaseline(i) ==
            LET stat == Tab(LAMBDA m : Shift1(cols[m], i, w), Len(METRICS))
            IN  [user_id |-> frame[i].user_id,
                 date    |-> frame[i].date,
                 vals    |-> frame[i].vals,
                 median  |-> Tab(LAMBDA m : stat[m].median, Len(METRICS)),
                 mad     |-> Tab(LAMBDA m : stat[m].mad, Len(METRICS))]
    IN  Tab(WithBaseline, Len(frame))

\* the default of the window argument
DefaultWindow == 14

(***************************************************************************)
(* compute_anomalies                                                       *)
(***************************************************************************)
\* 1.4826
MadScale == Q(7413, 5000)

\* (val - med) / (1.4826 * mad)
ZScore(val, med, mad) == FDiv(FSub(val, med), FMul(MadScale, mad))

RECURSIVE FSum(_)
FSum(xs) == IF Len(xs) = 0 THEN R(0) ELSE FAdd(xs[1], FSum(Tail(xs)))

RECURSIVE FMax(_)
FMax(xs) ==
    IF Len(xs) = 1 THEN xs[1]
    ELSE LET t == FMax(Tail(xs)) IN IF FGt(xs[1], t) THEN xs[1] ELSE t

\* the metrics a day's loop does not skip: value, median and mad all present
Included(row) ==
    SelectSeq(
        [m \in MetricIdx |-> m],
        LAMBDA m : ~(IsNaN(row.vals[m]) \/ IsNaN(row.median[m]) \/ IsNaN(row.mad[m])))

RowZ(row, m) == ZScore(row.vals[m], row.median[m], row.mad[m])

\* z_scores with a 0 for every metric the loop skips
ZScoresNeutral(row) ==
    Tab(LAMBDA m : IF \E k \in DOMAIN Included(row) : Included(row)[k] = m
                   THEN FAbs(RowZ(row, m)) ELSE R(0),
        Len(METRICS))

\* z_scores: abs(z) of the included metrics, in metric order
ZScores(row) ==
    LET inc == Included(row) IN Tab(LAMBDA k : FAbs(RowZ(row, inc[k])), Len(inc))

DriverOf(row, m) ==
    LET z == RowZ(row, m)
    IN  [metric    |-> METRICS[m],
         value     |-> row.vals[m],
         z_score   |-> z,
         direction |-> IF FGt(z, R(0)) THEN "high" ELSE "low"]

DriverCutAbove3(z) == FGt(FAbs(z), R(3))

\* abs(z) > 2.0
DriverCut(z) == FGt(FAbs(z), R(2))

\* drivers: one entry per included metric with abs(z) > 2.0, in metric order
DriversOf(row) ==
    LET hit == SelectSeq(Included(row), LAMBDA m : DriverCut(RowZ(row, m)))
    IN  Tab(LAMBDA k : DriverOf(row, hit[k]), Len(hit))

AggregateFifth(zs) ==
    IF Len(zs) = 0 THEN R(0)
    ELSE FAdd(FDiv(FSum(zs), R(Len(zs))), FMul(Q(1, 5), FMax(zs)))

\* score = 0.0 without z-scores, else np.mean(z_arr) + 0.25 * np.max(z_arr)
Aggregate(zs) ==
    IF Len(zs) = 0 THEN R(0)
    ELSE FAdd(FDiv(FSum(zs), R(Len(zs))), FMul(Q(1, 4), FMax(zs)))

\* score >= 1.5
IsAnom(score) == FGe(score, Q(3, 2))

\* one element put into a list sorted by abs(z_score) descending, behind the
\* elements that compare equal (sorted(..., reverse=True) is stable)
RECURSIVE InsertDesc(_, _)
InsertDesc(sorted, d) ==
    IF Len(sorted) = 0 THEN <<d>>
    ELSE IF FGt(FAbs(d.z_score), FAbs(sorted[1].z_score))
         THEN <<d>> \o sorted
         ELSE <<sorted[1]>> \o InsertDesc(Tail(sorted), d)

RECURSIVE SortedDesc(_)
SortedDesc(ds) ==
    IF Len(ds) = 0 THEN <<>>
    ELSE InsertDesc(SortedDesc(SubSeq(ds, 1, Len(ds) - 1)), ds[Len(ds)])

TopFirstTwo(ds) == SubSeq(ds, 1, IF Len(ds) < 2 THEN Len(ds) ELSE 2)

\* sorted(drivers, key=lambda d: abs(d["z_score"]), reverse=True)[:2]
Top(ds) ==
    LET s == SortedDesc(ds) IN SubSeq(s, 1, IF Len(s) < 2 THEN Len(s) ELSE 2)

\* "<metric> is <above|below> baseline (z=<z:.1f>)"
Part(d) ==
    [metric    |-> Label(CHOOSE m \in MetricIdx : METRICS[m] = d.metric),
     direction |-> IF d.direction = "high" THEN "above" ELSE "below",
     z         |-> Round(d.z_score, 10)]

\* the narrative, as the date, the sentence, the score to two decimals (in
\* hundredths, only in the third sentence) and the parts joined by "; "
Narrative(date, score, drivers) ==
    IF FLt(score, R(1))
    THEN [date |-> date, text |-> "Within normal variation.",
          score |-> <<>>, parts |-> <<>>]
    ELSE IF Len(drivers) = 0
    THEN [date |-> date,
          text |-> "Elevated deviation detected but no specific metric stands out.",
          score |-> <<>>, parts |-> <<>>]
    ELSE LET top == Top(drivers)
         IN  [date |-> date, text |-> "Anomaly",
              score |-> <<Round(score, 100)>>,
              parts |-> Tab(LAMBDA k : Part(top[k]), Len(top))]

AnomalyResult(row) ==
    LET drivers == DriversOf(row)
        score   == Aggregate(ZScores(row))
    IN  [user_id       |-> row.user_id,
         date          |-> row.date,
         anomaly_score |-> score,
         is_anomaly    |-> IsAnom(score),
         drivers       |-> drivers,
         narrative     |-> Narrative(row.date, score, drivers)]

compute_anomalies(df_base) ==
    Tab(LAMBDA i : AnomalyResult(df_base[i]), Len(df_base))

(***************************************************************************)
(* compute_trust_scores                                                    *)
(***************************************************************************)
Others(m) == SelectSeq([o \in MetricIdx |-> o], LAMBDA o : o # m)

\* df[METRICS].corr() is NaN at (x, y) unless both columns vary over the rows
\* where both hold a value (Pearson's r divides by both deviations)
CorrDefined(frame, x, y) ==
    LET both == {i \in DOMAIN frame :
                    ~IsNaN(frame[i].vals[x]) /\ ~IsNaN(frame[i].vals[y])}
    IN  /\ Cardinality({frame[i].vals[x] : i \in both}) > 1
        /\ Cardinality({frame[i].vals[y] : i \in both}) > 1

\* corr, as far as the model knows it: where it is defined
Corr(frame) ==
    Tab(LAMBDA x : Tab(LAMBDA y : CorrDefined(frame, x, y), Len(METRICS)), Len(METRICS))

\* sub_corr and target of metric m hold no NaN
SystemDefined(corr, m) ==
    \A x \in MetricIdx \ {m} : \A y \in MetricIdx : corr[x][y]

\* What np.linalg.solve can leave in predictor_weights[m].  The coefficients
\* are real numbers fixed by the correlations; they are not computed here but
\* chosen by `pick` among the outcomes the solve has: NaN weights when the
\* system holds a NaN (no exception is raised, the NaN goes through the
\* elimination), else the all-zero fallback of the except branch ("singular")
\* or finite coefficients.
Weights(corr, m, pick) ==
    IF ~SystemDefined(corr, m) THEN [o \in MetricIdx \ {m} |-> NaN]
    ELSE CASE pick = "singular" -> [o \in MetricIdx \ {m} |-> R(0)]
           [] pick = "next" ->
                [o \in MetricIdx \ {m} |-> IF o = (m % Len(METRICS)) + 1 THEN R(1) ELSE R(0)]
           [] OTHER ->
                [o \in MetricIdx \ {m} |-> IF o < m THEN Q(1, 2) ELSE Q(-1, 4)]

SolvePicks == {"singular", "next", "mixed"}

\* max(0.0, 1.0 - min(x, 1.0))
ClampScoreSwapped(x) == PyMaxSwapped(R(0), FSub(R(1), PyMin(x, R(1))))

ClampScore(x) == PyMax(R(0), FSub(R(1), PyMin(x, R(1))))

\* sum(predictor_weights[m][o] * preds[i] ...), a missing input counted as 0.0
Predicted(row, w, m) ==
    LET others == Others(m)
    IN  FSum(Tab(LAMBDA k :
                    FMul(w[others[k]],
                         IF IsNaN(row.vals[others[k]]) THEN R(0)
                         ELSE row.vals[others[k]]),
                 Len(others)))

ValueMissingByBaseline(row, m) == IsNaN(row.median[m])

\* pd.isna(val)
ValueMissing(row, m) == IsNaN(row.vals[m])

\* one trust entry: the body of the loop over METRICS for one row
TrustEntry(row, m, w, overall_mad) ==
    IF ValueMissing(row, m)
    THEN [metric |-> METRICS[m], date |-> row.date, score |-> R(0),
          drivers |-> <<"missing">>]
    ELSE LET val  == row.vals[m]
             z    == IF IsNaN(row.median[m]) \/ IsNaN(row.mad[m]) THEN R(0)
                     ELSE ZScore(val, row.median[m], row.mad[m])
             dist_score == ClampScore(FDiv(FAbs(z), R(3)))
             residual   == FAbs(FSub(val, Predicted(row, w, m)))
             res_score  == ClampScore(FDiv(residual, FMul(R(3), overall_mad)))
         IN  [metric |-> METRICS[m], date |-> row.date,
              score |-> FMul(dist_score, res_score),
              drivers |->
                  (IF FLt(dist_score, Q(3, 5)) THEN <<"distribution shift">> ELSE <<>>)
                  \o (IF FLt(res_score, Q(3, 5)) THEN <<"cross-signal deviation">>
                      ELSE <<>>)]

\* overall_mad = _mad(df[m].dropna())
OverallMad(frame, m) == _mad(NotNa(Column(frame, m)))

\* trust_entries: row by row, the six metrics of each row in METRICS order
compute_trust_scores(frame, df_baseline, pick) ==
    LET corr == Corr(frame)
        predictor_weights == Tab(LAMBDA m : Weights(corr, m, pick), Len(METRICS))
        \* the same for every row
        overall_mad == Tab(LAMBDA m : OverallMad(frame, m), Len(METRICS))
        Entry(k) ==
            LET i == ((k - 1) \div Len(METRICS)) + 1
                m == ((k - 1) % Len(METRICS)) + 1
            IN  TrustEntry(df_baseline[i], m, predictor_weights[m], overall_mad[m])
    IN  Tab(Entry, Len(METRICS) * Len(frame))

(***************************************************************************)
(* simulate_attack                                                         *)
(*                                                                         *)
(* The caller's frame and the frame the function works on are objects of a *)
(* heap, [df |-> ..., perturbed |-> ...]; the function writes through the  *)
(* reference df.copy() returns and reads through the reference it was      *)
(* given.  Row labels are 0 .. n_rows - 1, row i of the sequence has label *)
(* i - 1.  The random source is a tape: where the sample of each metric    *)
(* starts, the value of random.random(), the draw of np.random.normal.     *)
(***************************************************************************)
SupportedModes == {"missing", "delay", "spoof", "noise"}

\* The fraction argument is a Python float: an IEEE double man * 2^exp, man a
\* sequence of DoubleBits binary digits that starts with 1 (0.0 has none).
DoubleBits == 53

DoubleZero == [man |-> <<>>, exp |-> 0]

HexBits(d) == <<d \div 8, (d \div 4) % 2, (d \div 2) % 2, d % 2>>

RECURSIVE HexToBits(_)
HexToBits(ds) == IF ds = <<>> THEN <<>> ELSE HexBits(Head(ds)) \o HexToBits(Tail(ds))

\* the double float.hex() prints as 0x1.<digits>p<e>
Double(digits, e) == [man |-> <<1>> \o HexToBits(digits), exp |-> e - (DoubleBits - 1)]

\* k times the hex digit d
Rep(d, k) == [i \in 1..k |-> d]

\* the binary digits of c, none for 0
RECURSIVE NatBits(_)
NatBits(c) == IF c = 0 THEN <<>> ELSE Append(NatBits(c \div 2), c % 2)

\* the number with the binary digits bs[1..i]
RECURSIVE BitsNat(_, _)
BitsNat(bs, i) == IF i = 0 THEN 0 ELSE 2 * BitsNat(bs, i - 1) + bs[i]

\* the hex digits of the number with the binary digits bits
Limbs(bits) ==
    LET nl   == (Len(bits) + 3) \div 4
        pad  == 4 * nl - Len(bits)
        b(i) == IF i <= pad THEN 0 ELSE bits[i - pad]
    IN  [j \in 1..nl |->
            8 * b(4 * j - 3) + 4 * b(4 * j - 2) + 2 * b(4 * j - 1) + b(4 * j)]

\* the hex digits of n * ls[1..i] + carry, for n < 256
RECURSIVE TimesLimbs(_, _, _, _)
TimesLimbs(ls, n, i, carry) ==
    IF i = 0
    THEN (IF carry = 0 THEN <<>>
          ELSE IF carry < 16 THEN <<carry>>
          ELSE <<carry \div 16, carry % 16>>)
    ELSE Append(TimesLimbs(ls, n, i - 1, (n * ls[i] + carry) \div 16),
                (n * ls[i] + carry) % 16)

\* bits without its leading zeros
Strip(bits) ==
    LET ones == {j \in DOMAIN bits : bits[j] = 1}
    IN  IF ones = {} THEN <<>>
        ELSE SubSeq(bits, CHOOSE j \in ones : \A k \in ones : j <= k, Len(bits))

\* the binary digits of n * bits
TimesBits(bits, n) ==
    LET ls == Limbs(bits)
    IN  Strip(HexToBits(TimesLimbs(ls, n, Len(ls), 0)))

\* the binary digits of the number after bs
Increment(bs) ==
    LET zeros == {j \in DOMAIN bs : bs[j] = 0}
    IN  IF zeros = {} THEN <<1>> \o [i \in DOMAIN bs |-> 0]
        ELSE LET j == CHOOSE z \in zeros : \A k \in zeros : k <= z
             IN  [i \in DOMAIN bs |-> IF i < j THEN bs[i] ELSE IF i = j THEN 1 ELSE 0]

\* bits * 2^e rounded to DoubleBits digits, to nearest, ties to even
RoundNearestEven(bits, e) ==
    LET k    == Len(bits) - DoubleBits
        kept == SubSeq(bits, 1, DoubleBits)
        rest == SubSeq(bits, DoubleBits + 1, Len(bits))
        up   == /\ k > 0
                /\ rest[1] = 1
                /\ (kept[DoubleBits] = 1 \/ \E j \in 2..k : rest[j] = 1)
        inc  == Increment(kept)
    IN  IF ~up THEN [man |-> kept, exp |-> e + k]
        ELSE IF Len(inc) > DoubleBits
        THEN [man |-> SubSeq(inc, 1, DoubleBits), exp |-> e + k + 1]
        ELSE [man |-> inc, exp |-> e + k]

\* n * f for an int n >= 0 and a float f: n converts exactly, the product is
\* rounded
DoubleTimes(n, f) ==
    IF n = 0 \/ f.man = <<>> THEN DoubleZero
    ELSE RoundNearestEven(TimesBits(f.man, n), f.exp)

\* int(x) for a float x >= 0
DoubleInt(x) ==
    IF x.man = <<>> \/ Len(x.man) + x.exp <= 0 THEN 0
    ELSE IF x.exp >= 0 THEN BitsNat(x.man, Len(x.man)) * (2 ^ x.exp)
    ELSE BitsNat(x.man, Len(x.man) + x.exp)

\* df.copy() without a new object: the result is the frame it was given
DfAlias(heap) == [heap |-> heap, ref |-> "df"]

\* perturbed = df.copy()
DfCopy(heap) == [heap |-> [heap EXCEPT !.perturbed = heap.df], ref |-> "perturbed"]

NValsAtLeastOne(n_rows, fr) ==
    IF DoubleInt(DoubleTimes(n_rows, fr)) > 1 THEN DoubleInt(DoubleTimes(n_rows, fr))
    ELSE 1

\* n_vals = int(n_rows * fraction)
NVals(n_rows, fr) == DoubleInt(DoubleTimes(n_rows, fr))

\* a sample drawn with replacement: the same label n_vals times
SampleRepeated(tape, m, n_rows, n_vals) ==
    IF n_vals > 0
    THEN Tab(LAMBDA k : (tape.start + (m - 1) * tape.stride) % n_rows, n_vals)
    ELSE <<>>

\* random.sample(range(n_rows), n_vals) if n_vals > 0 else []: n_vals distinct
\* labels, here consecutive ones (cyclically) from where the tape starts
Sample(tape, m, n_rows, n_vals) ==
    IF n_vals > 0
    THEN Tab(LAMBDA k : (tape.start + (m - 1) * tape.stride + k - 1) % n_rows, n_vals)
    ELSE <<>>

At(heap, ref, idx, m) == heap[ref][idx + 1].vals[m]

SetAt(heap, ref, idx, m, v) == [heap EXCEPT ![ref][idx + 1].vals[m] = v]

\* the body of "for idx in indices" for one idx
PerturbCell(heap, ref, md, tape, m, idx) ==
    CASE md = "missing" -> SetAt(heap, ref, idx, m, NaN)
      [] md = "delay" ->
            LET src == IF idx - 3 > 0 THEN idx - 3 ELSE 0
            IN  SetAt(heap, ref, idx, m, At(heap, "df", src, m))
      [] md = "spoof" ->
            LET val == At(heap, "df", idx, m)
            IN  IF ~IsNaN(val)
                THEN SetAt(heap, ref, idx, m, FMul(val, FAdd(Q(3, 2), tape.random)))
                ELSE heap
      [] md = "noise" ->
            LET val == At(heap, "df", idx, m)
            IN  IF ~IsNaN(val) THEN SetAt(heap, ref, idx, m, FAdd(val, R(tape.noise)))
                ELSE heap
      [] OTHER -> heap

RECURSIVE PerturbCells(_, _, _, _, _, _)
PerturbCells(heap, ref, md, tape, m, indices) ==
    IF indices = <<>> THEN heap
    ELSE PerturbCells(PerturbCell(heap, ref, md, tape, m, Head(indices)),
                      ref, md, tape, m, Tail(indices))

RECURSIVE PerturbMetrics(_, _, _, _, _, _)
PerturbMetrics(heap, ref, md, tape, n_vals, m) ==
    IF m > Len(METRICS) THEN heap
    ELSE PerturbMetrics(
             PerturbCells(heap, ref, md, tape, m,
                          Sample(tape, m, Len(heap.df), n_vals)),
             ref, md, tape, n_vals, m + 1)

\* The process-wide generators (random, np.random) after a call that drew
\* from them: they have moved on, and the next sample starts one label further.
Advance(tape, n_rows) == [tape EXCEPT !.start = (@ + 1) % n_rows]

\* the heap after the call, whether the call raised (random.sample raises
\* ValueError for a sample larger than the population), what it returned, and
\* the generator it leaves behind (untouched when nothing is drawn)
simulate_attack(frame, md, fr, tape) ==
    LET c      == DfCopy([df |-> frame, perturbed |-> <<>>])
        n_rows == Len(frame)
        n_vals == NVals(n_rows, fr)
    IN  IF n_vals > n_rows
        THEN [df |-> c.heap.df, raised |-> TRUE, perturbed |-> <<>>, rng |-> tape]
        ELSE LET h == PerturbMetrics(c.heap, c.ref, md, tape, n_vals, 1)
             IN  [df |-> h.df, raised |-> FALSE, perturbed |-> h[c.ref],
                  rng |-> IF n_vals > 0 THEN Advance(tape, n_rows) ELSE tape]

(***************************************************************************)
(* Calls of simulate_attack                                                *)
(***************************************************************************)
AttackDays == 6

AttackRows ==
    << <<R(10), R(10), R(10), R(10), R(10), R(10)>>,
       <<R(12), NaN,   R(0),  R(8),  R(10), R(14)>>,
       <<R(6),  R(20), R(10), NaN,   R(4),  R(0)>> >>

\* the series simulate_attack is called on: the three readings in turn
AttackSeries ==
    {[i \in 1..AttackDays |-> Row("u1", i, AttackRows[((i + a) % Len(AttackRows)) + 1])] :
        a \in 0..(Len(AttackRows) - 1)}

Modes == SupportedModes \cup {"replay"}

\* 0.0, 0.1, 1/6 (0.16666666666666666), 0.4, 1.0 and 1.2
Fractions ==
    {DoubleZero,
     Double(Rep(9, 12) \o <<10>>, -4),
     Double(Rep(5, 13), -3),
     Double(Rep(9, 12) \o <<10>>, -2),
     Double(Rep(0, 13), 0),
     Double(Rep(3, 13), 0)}

Tapes ==
    [start : 0..(AttackDays - 1), stride : {0, 1}, random : {R(0), Q(1, 2)},
     noise : {-1, 0, 1}]

InitAttack ==
    /\ df \in AttackSeries
    /\ df2 = <<>>
    /\ window = DefaultWindow
    /\ mode \in Modes
    /\ fraction \in Fractions
    /\ rng \in Tapes
    /\ out = None
    /\ out2 = None
    /\ global_df = <<>>
    /\ db = NoDb

\* one call of simulate_attack(df, mode, fraction); df is the caller's frame
SimulateAttack ==
    /\ out = None
    /\ LET r == simulate_attack(df, mode, fraction, rng)
       IN  /\ df' = r.df
           /\ rng' = r.rng
           /\ out' = [op |-> "attack", given |-> df, raised |-> r.raised,
                      perturbed |-> r.perturbed]
    /\ UNCHANGED <<df2, window, mode, fraction, out2, global_df, db>>

SpecAttack == InitAttack /\ [][SimulateAttack]_vars

(***************************************************************************)
(* Calls of the scoring functions on one series                            *)
(***************************************************************************)
\* the number of days of a scored series
NDays == 9

\* the days before the first day that can have a baseline
HistLen == MinPeriods(DefaultWindow)

\* The rows of the first HistLen days: three readings that differ in some
\* metrics (so that some columns vary and others are constant) and one with
\* two metrics missing.
HistRows ==
    << <<R(10), R(10), R(10), R(10), R(10), R(10)>>,
       <<R(12), R(10), R(14), R(10), R(11), R(10)>>,
       <<R(8),  R(10), R(10), R(9),  R(10), R(13)>>,
       <<NaN,   R(10), R(10), NaN,   R(10), R(10)>> >>

\* The rows of the later days: a normal reading, single spikes up and down,
\* several deviating metrics at once, all metrics raised a little, missing
\* values.
ProbeRows ==
    << <<R(10), R(10), R(10), R(10), R(10), R(10)>>,
       <<R(16), R(10), R(10), R(10), R(10), R(10)>>,
       <<R(10), R(10), R(10), R(10), R(10), R(4)>>,
       <<R(13), R(7),  R(10), R(15), NaN,   R(10)>>,
       <<R(12), R(12), R(12), R(12), R(12), R(12)>>,
       <<NaN,   NaN,   NaN,   NaN,   NaN,   NaN>>,
       <<R(16), NaN,   NaN,   NaN,   NaN,   NaN>>,
       <<R(14), R(10), R(6),  R(10), R(10), R(19)>> >>

\* rolling statistics and correlations do not depend on the order of the rows
\* inside the window, so the first days are taken in one order only
SortedHist ==
    {h \in [1..HistLen -> DOMAIN HistRows] : \A i \in 1..(HistLen - 1) : h[i] <= h[i + 1]}

MkSeries(h, p) ==
    [i \in 1..NDays |->
        Row("u1", i, IF i <= HistLen THEN HistRows[h[i]] ELSE ProbeRows[p[i - HistLen]])]

\* the series whose days before the last hold a row of early after the first
\* HistLen days; the last day holds any row of ProbeRows
SeriesWith(early) ==
    {MkSeries(h, p) :
        h \in SortedHist,
        p \in {q \in [1..(NDays - HistLen) -> DOMAIN ProbeRows] :
                  \A k \in 1..(NDays - HistLen - 1) : q[k] \in early}}

\* the series compute_anomalies is called on
ScoreSeries == SeriesWith({1, 2, 4})

\* the series compute_trust_scores is called on
TrustSeries == SeriesWith({1, 4})

InitCall(series) ==
    /\ df \in series
    /\ df2 = <<>>
    /\ window = DefaultWindow
    /\ mode = "missing"
    /\ fraction = DoubleZero
    /\ rng = <<>>
    /\ out = None
    /\ out2 = None
    /\ global_df = <<>>
    /\ db = NoDb

\* one call of compute_anomalies(df)
ComputeAnomalies ==
    /\ out = None
    /\ LET df_base == build_robust_baseline(df, DefaultWindow)
       IN  out' = [op |-> "anomalies", df_base |-> df_base,
                   results |-> compute_anomalies(df_base)]
    /\ UNCHANGED <<df, df2, window, mode, fraction, rng, out2, global_df, db>>

\* one call of compute_trust_scores(df)
ComputeTrustScores ==
    \E pick \in SolvePicks :
        /\ out = None
        /\ LET df_baseline == build_robust_baseline(df, DefaultWindow)
           IN  out' = [op |-> "trust", pick |-> pick, df_base |-> df_baseline,
                       entries |-> compute_trust_scores(df, df_baseline, pick)]
        /\ UNCHANGED <<df, df2, window, mode, fraction, rng, out2, global_df, db>>

InitAnomalies == InitCall(ScoreSeries)

SpecAnomalies == InitAnomalies /\ [][ComputeAnomalies]_vars

InitTrust == InitCall(TrustSeries)

SpecTrust == InitTrust /\ [][ComputeTrustScores]_vars

(***************************************************************************)
(* Calls of build_robust_baseline on two series that agree before one day  *)
(***************************************************************************)
SmallWindow == 6

Windows == {SmallWindow, DefaultWindow}

\* the first days of the two series: the first two are normal readings, the
\* last has missing values
TwinHist == {h \in SortedHist : h[1] = 1 /\ h[2] = 1 /\ h[HistLen] = 4}

\* the rows the first series holds after the first days
TwinProbes == {1, 8}

\* the rows the second series holds from the day where it departs
TwinChanges == {2, 4, 6}

\* frame with the rows of day d and later replaced by the reading vs
ChangedFrom(frame, d, vs) ==
    [i \in 1..Len(frame) |->
        IF i < d THEN frame[i] ELSE Row(frame[i].user_id, frame[i].date, vs)]

InitBaseline ==
    /\ df \in {MkSeries(h, p) :
                 h \in TwinHist, p \in [1..(NDays - HistLen) -> TwinProbes]}
    /\ \E d \in 1..NDays, c \in TwinChanges : df2 = ChangedFrom(df, d, ProbeRows[c])
    /\ window \in Windows
    /\ mode = "missing"
    /\ fraction = DoubleZero
    /\ rng = <<>>
    /\ out = None
    /\ out2 = None
    /\ global_df = <<>>
    /\ db = NoDb

\* one call of build_robust_baseline(df, window)
BuildRobustBaseline ==
    /\ out = None
    /\ out' = [op |-> "baseline", rows |-> build_robust_baseline(df, window)]
    /\ UNCHANGED <<df, df2, window, mode, fraction, rng, out2, global_df, db>>

\* one call of build_robust_baseline(df2, window)
BuildRobustBaselineTwin ==
    /\ out2 = None
    /\ out2' = [op |-> "baseline", rows |-> build_robust_baseline(df2, window)]
    /\ UNCHANGED <<df, df2, window, mode, fraction, rng, out, global_df, db>>

SpecBaseline == InitBaseline /\ [][BuildRobustBaseline \/ BuildRobustBaselineTwin]_vars

(***************************************************************************)
(* Baseline: C3                                                            *)
(***************************************************************************)
\* the values of the two series agree on every day strictly before day d
AgreeBefore(d) == \A j \in 1..(d - 1) : df[j].vals = df2[j].vals

\* C3: for two series of the same length that agree on the values of all days
\* strictly before day d, build_robust_baseline gives day d the same median
\* and the same mad (absent in both or equal) for every metric, whatever the
\* values of day d and of later days are.
C3_NoLookahead ==
    (out.op = "baseline" /\ out2.op = "baseline") =>
        /\ Len(out.rows) = Len(df)
        /\ Len(out2.rows) = Len(df2)
        /\ \A d \in DOMAIN df :
              AgreeBefore(d) =>
                  /\ out.rows[d].median = out2.rows[d].median
                  /\ out.rows[d].mad = out2.rows[d].mad

\* C3 witness: the two series differ on day d in a metric whose baseline of
\* day d is present, and the baseline of the next day tells them apart.
C3_Witness ==
    /\ out.op = "baseline"
    /\ out2.op = "baseline"
    /\ \E d \in 1..(Len(df) - 1), m \in MetricIdx :
        /\ AgreeBefore(d)
        /\ df[d].vals[m] # df2[d].vals[m]
        /\ ~IsNaN(out.rows[d].median[m])
        /\ out.rows[d].median[m] = out2.rows[d].median[m]
        /\ out.rows[d + 1].median[m] # out2.rows[d + 1].median[m]

(***************************************************************************)
(* Trust scores: C1, C2                                                    *)
(***************************************************************************)
\* the trust entry of row i and metric m in the flat list
EntryAt(entries, i, m) == entries[(i - 1) * Len(METRICS) + m]

\* C1: every trust entry returned by compute_trust_scores carries a score
\* that is a number (not NaN) between 0 and 1, whatever is missing in the
\* series, whether a baseline exists, and whatever the solve left in the
\* predictor weights (NaN included).
C1_TrustScoreInRange ==
    out.op = "trust" =>
        \A k \in DOMAIN out.entries :
            /\ ~IsNaN(out.entries[k].score)
            /\ FGe(out.entries[k].score, R(0))
            /\ FGe(R(1), out.entries[k].score)

\* C1 witness: a day with a baseline and a missing metric, where the predictor
\* weights of a metric that has a value are NaN: its residual is NaN and its
\* score is the number 0.
C1_Witness ==
    /\ out.op = "trust"
    /\ \E i \in DOMAIN df, m, o \in MetricIdx :
        /\ i > HistLen
        /\ ~IsNaN(df[i].vals[m])
        /\ IsNaN(df[i].vals[o])
        /\ ~IsNaN(out.df_base[i].median[m])
        /\ ~SystemDefined(Corr(df), m)
        /\ EntryAt(out.entries, i, m).score = R(0)
        /\ EntryAt(out.entries, i, m).drivers = <<"cross-signal deviation">>

\* C2: a missing value gives the entry of that metric and day the score 0 and
\* the drivers ["missing"] and nothing else, whatever the baseline and the
\* other metrics of the day are.
C2_MissingForcesZero ==
    out.op = "trust" =>
        \A i \in DOMAIN df, m \in MetricIdx :
            IsNaN(df[i].vals[m]) =>
                /\ EntryAt(out.entries, i, m).metric = METRICS[m]
                /\ EntryAt(out.entries, i, m).date = df[i].date
                /\ EntryAt(out.entries, i, m).score = R(0)
                /\ EntryAt(out.entries, i, m).drivers = <<"missing">>

\* C2 witness: a day with a baseline where one metric is missing and another
\* metric of the same day is trusted (score above 0).
C2_Witness ==
    /\ out.op = "trust"
    /\ \E i \in DOMAIN df, m, o \in MetricIdx :
        /\ i > HistLen
        /\ IsNaN(df[i].vals[m])
        /\ ~IsNaN(out.df_base[i].median[m])
        /\ EntryAt(out.entries, i, m).drivers = <<"missing">>
        /\ FGt(EntryAt(out.entries, i, o).score, R(0))

(***************************************************************************)
(* Anomalies: C4, C5, C6, C7                                               *)
(***************************************************************************)
\* the rows of df with their baseline, as the call computed them
Base == out.df_base

\* the metrics of day i with a value and a baseline
Qualifies(i) ==
    {m \in MetricIdx :
        /\ ~IsNaN(df[i].vals[m])
        /\ ~IsNaN(Base[i].median[m])
        /\ ~IsNaN(Base[i].mad[m])}

\* z = (value - median) / (1.4826 * mad) of a qualifying metric
Z(i, m) ==
    FDiv(FSub(df[i].vals[m], Base[i].median[m]), FMul(Q(14826, 10000), Base[i].mad[m]))

RECURSIVE SumAbsZ(_, _)
SumAbsZ(i, ms) ==
    IF ms = {} THEN R(0)
    ELSE LET m == CHOOSE x \in ms : TRUE
         IN  FAdd(FAbs(Z(i, m)), SumAbsZ(i, ms \ {m}))

MaxAbsZ(i, ms) ==
    LET m == CHOOSE x \in ms : \A y \in ms : FGe(FAbs(Z(i, x)), FAbs(Z(i, y)))
    IN  FAbs(Z(i, m))

\* C4: the anomaly score of a day is mean(|z|) + 0.25 * max(|z|) over exactly
\* the metrics with a value and a baseline that day (the others are left out,
\* not counted as 0), it is 0 when there is none, and is_anomaly is true
\* exactly when the score is at least 1.5.
C4_AnomalyScore ==
    out.op = "anomalies" =>
        /\ Len(out.results) = Len(df)
        /\ \A i \in DOMAIN df :
            LET ms == Qualifies(i)
                expected ==
                    IF ms = {} THEN R(0)
                    ELSE FAdd(FDiv(SumAbsZ(i, ms), R(Cardinality(ms))),
                              FDiv(MaxAbsZ(i, ms), R(4)))
            IN  /\ out.results[i].anomaly_score = expected
                /\ out.results[i].is_anomaly = FGe(expected, Q(15, 10))

\* C4 witness: a day where some metrics qualify with z # 0, one is left out
\* for a missing value and one for an absent baseline.
C4_Witness ==
    /\ out.op = "anomalies"
    /\ \E i \in DOMAIN df, a, b, c \in MetricIdx :
        /\ a \in Qualifies(i)
        /\ Z(i, a) # R(0)
        /\ IsNaN(df[i].vals[b])
        /\ ~IsNaN(df[i].vals[c])
        /\ IsNaN(Base[i].median[c])
        /\ FGt(out.results[i].anomaly_score, R(0))

\* C5: the drivers of a day hold one entry for a metric if and only if the
\* metric has a value and a baseline that day and |z| > 2.0; the entry is
\* "high" when z > 0 and "low" otherwise and carries the value and the signed z.
C5_Drivers ==
    out.op = "anomalies" =>
        \A i \in DOMAIN df, m \in MetricIdx :
            LET ds   == out.results[i].drivers
                mine == {k \in DOMAIN ds : ds[k].metric = METRICS[m]}
            IN  IF m \in Qualifies(i) /\ FGt(FAbs(Z(i, m)), R(2))
                THEN /\ Cardinality(mine) = 1
                     /\ \A k \in mine :
                            /\ ds[k].value = df[i].vals[m]
                            /\ ds[k].z_score = Z(i, m)
                            /\ ds[k].direction =
                                   IF FGt(Z(i, m), R(0)) THEN "high" ELSE "low"
                ELSE mine = {}

\* C5 witness: a day with a "high" driver, a "low" driver and a qualifying
\* metric that deviates without being a driver.
C5_Witness ==
    /\ out.op = "anomalies"
    /\ \E i \in DOMAIN df, m \in MetricIdx :
        LET ds == out.results[i].drivers
        IN  /\ \E k \in DOMAIN ds : ds[k].direction = "high"
            /\ \E k \in DOMAIN ds : ds[k].direction = "low"
            /\ m \in Qualifies(i)
            /\ Z(i, m) # R(0)
            /\ \A k \in DOMAIN ds : ds[k].metric # METRICS[m]

\* C6: a day on which one metric has a baseline and |z| >= 3.6 is flagged
\* (is_anomaly) and names that metric among its drivers, whatever the other
\* five metrics are that day.
C6_SpikeFlagged ==
    out.op = "anomalies" =>
        \A i \in DOMAIN df, m \in MetricIdx :
            (m \in Qualifies(i) /\ FGe(FAbs(Z(i, m)), Q(36, 10))) =>
                /\ out.results[i].is_anomaly
                /\ \E k \in DOMAIN out.results[i].drivers :
                       out.results[i].drivers[k].metric = METRICS[m]

\* C6 witness: a day where all six metrics qualify, one has 3.6 <= |z| < 4.09 and
\* the five others sit on their median.
C6_Witness ==
    /\ out.op = "anomalies"
    /\ \E i \in DOMAIN df, m \in MetricIdx :
        /\ Qualifies(i) = MetricIdx
        /\ FGe(FAbs(Z(i, m)), Q(36, 10))
        /\ FLt(FAbs(Z(i, m)), Q(409, 100))
        /\ \A o \in MetricIdx \ {m} : Z(i, o) = R(0)
        /\ out.results[i].is_anomaly

Min2(n) == IF n < 2 THEN n ELSE 2

\* C7: the narrative is fixed by the score and the drivers: below 1.0 the
\* "Within normal variation." sentence, from 1.0 on without drivers the
\* "Elevated deviation ..." sentence, else "Anomaly (score=..)" followed by at
\* most two drivers, those of largest |z_score| in descending order, "above"
\* for high and "below" for low.
C7_Narrative ==
    out.op = "anomalies" =>
        \A i \in DOMAIN df :
            LET r  == out.results[i]
                ds == r.drivers
                n  == r.narrative
            IN  /\ n.date = df[i].date
                /\ FLt(r.anomaly_score, R(1)) =>
                       /\ n.text = "Within normal variation."
                       /\ n.parts = <<>>
                /\ (FGe(r.anomaly_score, R(1)) /\ ds = <<>>) =>
                       /\ n.text =
                            "Elevated deviation detected but no specific metric stands out."
                       /\ n.parts = <<>>
                /\ (FGe(r.anomaly_score, R(1)) /\ ds # <<>>) =>
                       /\ n.text = "Anomaly"
                       /\ n.score = <<Round(r.anomaly_score, 100)>>
                       /\ Len(n.parts) = Min2(Len(ds))
                       /\ \E sel \in [DOMAIN n.parts -> DOMAIN ds] :
                            /\ \A j, k \in DOMAIN sel : j # k => sel[j] # sel[k]
                            /\ \A k \in DOMAIN sel :
                                 /\ n.parts[k].metric =
                                      Label(CHOOSE m \in MetricIdx :
                                                METRICS[m] = ds[sel[k]].metric)
                                 /\ n.parts[k].direction =
                                      (IF ds[sel[k]].direction = "high"
                                       THEN "above" ELSE "below")
                                 /\ n.parts[k].z = Round(ds[sel[k]].z_score, 10)
                                 /\ \A j \in DOMAIN ds :
                                      (\A k2 \in DOMAIN sel : sel[k2] # j) =>
                                          FGe(FAbs(ds[sel[k]].z_score),
                                              FAbs(ds[j].z_score))
                            /\ \A j, k \in DOMAIN sel :
                                 j < k => FGe(FAbs(ds[sel[j]].z_score),
                                              FAbs(ds[sel[k]].z_score))

\* C7 witness: a day with three drivers or more whose largest |z| is not the
\* first in metric order, told as one metric above and one below baseline.
C7_Witness ==
    /\ out.op = "anomalies"
    /\ \E i \in DOMAIN df :
        LET r == out.results[i]
        IN  /\ Len(r.drivers) >= 3
            /\ \E k \in DOMAIN r.drivers :
                   FGt(FAbs(r.drivers[k].z_score), FAbs(r.drivers[1].z_score))
            /\ r.narrative.text = "Anomaly"
            /\ Len(r.narrative.parts) = 2
            /\ r.narrative.parts[1].direction # r.narrative.parts[2].direction

(***************************************************************************)
(* Attack simulation: C8, C9, C10                                          *)
(***************************************************************************)
\* the value of the float f is in [0, 1]
InUnitInterval(f) ==
    \/ f.man = <<>>
    \/ Len(f.man) + f.exp <= 0
    \/ f = Double(Rep(0, 13), 0)

\* n * f < 1 for the values of n and f, without rounding
ProductBelowOne(n, f) ==
    \/ n = 0
    \/ f.man = <<>>
    \/ Len(TimesBits(f.man, n)) + f.exp <= 0

\* C8: simulate_attack never modifies its input: for every mode, every
\* fraction in [0, 1] and every random choice the frame passed in holds the
\* same values after the call as before, and the frame returned has the same
\* number of records with the same user_id and date in each position.
C8_InputUnmodified ==
    (out.op = "attack" /\ InUnitInterval(fraction)) =>
        /\ df = out.given
        /\ ~out.raised
        /\ Len(out.perturbed) = Len(out.given)
        /\ \A i \in DOMAIN out.given :
            /\ out.perturbed[i].user_id = out.given[i].user_id
            /\ out.perturbed[i].date = out.given[i].date

\* C8 witness: a call that returned a frame differing from the one passed in.
C8_Witness ==
    /\ out.op = "attack"
    /\ mode \in {"delay", "spoof"}
    /\ ~out.raised
    /\ \E i \in DOMAIN out.given, m \in MetricIdx :
           out.perturbed[i].vals[m] # out.given[i].vals[m]
    /\ df = out.given

\* C9 as stated: when floor(n * fraction) = 0 for a series of n records,
\* simulate_attack returns a series equal to its input in every cell, for each
\* of the four supported modes and every random choice.
C9_FloorZeroIdentity ==
    (out.op = "attack" /\ mode \in SupportedModes
        /\ ProductBelowOne(Len(out.given), fraction)) =>
        /\ ~out.raised
        /\ out.perturbed = out.given

\* C9, amended: when the product n * fraction as the float arithmetic of the
\* call rounds it is below 1 (int(n * fraction) = 0), in particular for
\* fraction = 0, simulate_attack returns a series equal to its input in every
\* cell, for each of the four supported modes and every random choice.
C9_ZeroFractionIdentity ==
    (out.op = "attack" /\ mode \in SupportedModes
        /\ DoubleInt(DoubleTimes(Len(out.given), fraction)) = 0) =>
        /\ ~out.raised
        /\ out.perturbed = out.given

\* C9 witness: a call in a mode other than "missing" with a fraction above 0
\* that selects no record.
C9_Witness ==
    /\ out.op = "attack"
    /\ mode = "spoof"
    /\ fraction # DoubleZero
    /\ DoubleInt(DoubleTimes(Len(out.given), fraction)) = 0
    /\ out.perturbed = out.given

\* C10: a call of simulate_attack with a mode that is none of "missing",
\* "delay", "spoof", "noise" is rejected with an error; it never returns a
\* series.
C10_InvalidModeRejected ==
    (out.op = "attack" /\ mode \notin SupportedModes) => out.raised

(***************************************************************************)
(* Federated trust (TrustEngine._compute_embedding and                     *)
(* TrustEngine.compute_federated_trust_score)                              *)
(*                                                                         *)
(* In this part one unit of a metric value is 1e-8, the epsilon added to   *)
(* the norm of the mean vector, so that the norm and its epsilon are both  *)
(* small integers.  The epsilon added to the product of the two embedding  *)
(* norms has no unit: it is the rational 1/10^8.  The series drawn have    *)
(* mean vectors of rational norm, where the square root is exact.          *)
(***************************************************************************)
\* the root of a square number
ISqrt(n) == CHOOSE r \in 0..n : r * r = n

\* sqrt(a), for a float whose numerator and denominator are squares
FSqrt(a) == <<ISqrt(a[1]), ISqrt(a[2])>>

\* np.linalg.norm(vec)
Norm(vec) == FSqrt(FSum(Tab(LAMBDA i : FMul(vec[i], vec[i]), Len(vec))))

\* np.dot(a, b)
Dot(a, b) == FSum(Tab(LAMBDA i : FMul(a[i], b[i]), Len(a)))

\* 1e-8, in units of a metric value
NormEpsilon == 1

\* 1e-8
CosineEpsilon == Q(1, 100000000)

SeriesMedian(series) == Median(series)

\* float(series.mean()) of a series without NaN
SeriesMean(series) == FDiv(FSum(series), R(Len(series)))

\* the unit-normalised vector of the per-metric means of a series
_compute_embedding(frame) ==
    LET MeanOf(m) ==
            LET series == NotNa(Column(frame, m))
            IN  IF Len(series) = 0 THEN R(0) ELSE SeriesMean(series)
        vec  == Tab(MeanOf, Len(METRICS))
        norm == FAdd(Norm(vec), R(NormEpsilon))
    IN  Tab(LAMBDA m : FDiv(vec[m], norm), Len(METRICS))

compute_federated_trust_score(user_df, cohort_df) ==
    LET user_embed   == _compute_embedding(user_df)
        global_embed == _compute_embedding(cohort_df)
        dot          == Dot(user_embed, global_embed)
        denom        == FAdd(FMul(Norm(user_embed), Norm(global_embed)), CosineEpsilon)
        similarity   == FDiv(dot, denom)
    IN  PyMax(R(0), PyMin(FDiv(FAdd(similarity, R(1)), R(2)), R(1)))

(***************************************************************************)
(* Calls of compute_federated_trust_score                                  *)
(***************************************************************************)
\* Readings of a user or a cohort.  The first three have the mean vector
\* (1, 2, 2, 0, 0, 0) with different values, lengths and missing cells (the
\* third never observes the last three metrics); the next two have its
\* negation; the others point elsewhere or have the zero mean vector.
FedRows ==
    << << <<R(1), R(2), R(2), R(0), R(0), R(0)>> >>,
       << <<R(2),  R(1), R(2), R(0), R(0), R(0)>>,
          <<R(2),  R(1), R(2), NaN,  R(0), R(0)>>,
          <<R(-1), R(4), R(2), R(0), NaN,  R(0)>> >>,
       << <<NaN,  R(2), R(2), NaN, NaN, NaN>>,
          <<R(1), NaN,  R(2), NaN, NaN, NaN>> >>,
       << <<R(-1), R(-2), R(-2), R(0), R(0), R(0)>> >>,
       << <<R(0),  R(-4), R(-2), R(0), R(0), R(0)>>,
          <<R(-2), R(0),  R(-2), NaN,  R(0), R(0)>> >>,
       << <<R(1), R(0), R(0), R(0), R(0), R(0)>> >>,
       << <<R(2), R(2), R(1), R(0), R(0), R(0)>> >>,
       << <<R(0), R(0), R(0), R(2), R(2), R(1)>> >>,
       << <<R(0), NaN, R(0), R(0), R(0), R(0)>>,
          <<NaN,  NaN, R(0), R(0), R(0), R(0)>> >> >>

FedSeries(u) ==
    {[i \in 1..Len(FedRows[k]) |-> Row(u, i, FedRows[k][i])] : k \in DOMAIN FedRows}

InitFederated ==
    /\ df \in FedSeries("u1")
    /\ df2 \in FedSeries("u2")
    /\ global_df \in FedSeries("global")
    /\ window = DefaultWindow
    /\ mode = "missing"
    /\ fraction = DoubleZero
    /\ rng = <<>>
    /\ out = None
    /\ out2 = None
    /\ db = NoDb

FederatedCall(user_df, cohort_df) ==
    [op |-> "federated", user_df |-> user_df, global_df |-> cohort_df,
     trust_score |-> compute_federated_trust_score(user_df, cohort_df)]

\* compute_federated_trust_score(df, global_df)
ComputeFederatedTrustScore ==
    /\ out = None
    /\ out' = FederatedCall(df, global_df)
    /\ UNCHANGED <<df, df2, window, mode, fraction, rng, out2, global_df, db>>

\* the same call for a second user, against the same cohort
ComputeFederatedTrustScoreUser2 ==
    /\ out2 = None
    /\ out2' = FederatedCall(df2, global_df)
    /\ UNCHANGED <<df, df2, window, mode, fraction, rng, out, global_df, db>>

\* the same call for the first user, against a second cohort
ComputeFederatedTrustScoreCohort2 ==
    /\ out2 = None
    /\ out2' = FederatedCall(df, df2)
    /\ UNCHANGED <<df, df2, window, mode, fraction, rng, out, global_df, db>>

SpecFederated ==
    InitFederated /\ [][\/ ComputeFederatedTrustScore
                        \/ ComputeFederatedTrustScoreUser2
                        \/ ComputeFederatedTrustScoreCohort2]_vars

\* the mean of the observed values of metric m, 0 when there is none
ObservedMean(frame, m) ==
    LET obs == {i \in DOMAIN frame : ~IsNaN(frame[i].vals[m])}
        RECURSIVE Total(_)
        Total(S) == IF S = {} THEN 0
                    ELSE LET i == CHOOSE j \in S : TRUE
                         IN  frame[i].vals[m][1] + Total(S \ {i})
    IN  IF obs = {} THEN R(0) ELSE Q(Total(obs), Cardinality(obs))

MeanVector(frame) == [m \in MetricIdx |-> ObservedMean(frame, m)]

ZeroVector == [m \in MetricIdx |-> R(0)]

Negated(vec) == [m \in MetricIdx |-> FNeg(vec[m])]

\* C11: compute_federated_trust_score returns exactly 1.0 when user and cohort
\* have the same non-zero mean vector, and exactly 0.0 when the user's mean
\* vector is the negation of the cohort's non-zero mean vector.
C11_IdenticalOneOppositeZero ==
    out.op = "federated" =>
        LET u == MeanVector(out.user_df)
            c == MeanVector(out.global_df)
        IN  /\ (c # ZeroVector /\ u = c) => out.trust_score = R(1)
            /\ (c # ZeroVector /\ u = Negated(c)) => out.trust_score = R(0)

\* C12: the federated score depends on the two series only through their
\* per-metric means over the observed values (0 for a metric never observed):
\* two calls whose user series have the same mean vector and whose cohort
\* series have the same mean vector return the same score, whatever the
\* values, lengths and missing cells of the series.
C12_SameMeansSameScore ==
    (/\ out.op = "federated"
     /\ out2.op = "federated"
     /\ MeanVector(out.user_df) = MeanVector(out2.user_df)
     /\ MeanVector(out.global_df) = MeanVector(out2.global_df))
    => out.trust_score = out2.trust_score

\* two users with the same non-zero means, series of different lengths, one of
\* them with missing cells, scored against the same cohort
C12_Witness ==
    /\ out.op = "federated"
    /\ out2.op = "federated"
    /\ out.global_df = out2.global_df
    /\ Len(out.user_df) # Len(out2.user_df)
    /\ \E i \in DOMAIN out2.user_df, m \in MetricIdx : IsNaN(out2.user_df[i].vals[m])
    /\ \A i \in DOMAIN out.user_df, m \in MetricIdx : ~IsNaN(out.user_df[i].vals[m])
    /\ MeanVector(out.user_df) = MeanVector(out2.user_df)
    /\ MeanVector(out.user_df) # ZeroVector
    /\ FLt(Q(1, 2), out.trust_score)
    /\ FLt(out.trust_score, R(1))

\* the values of metric m in the window rows before row i
WindowBefore(frame, m, i, w) ==
    {frame[j].vals[m] : j \in {k \in DOMAIN frame : i - w <= k /\ k < i}}

\* C13: every MAD value is at least 1e-6: each rolling baseline mad that is
\* present and each overall-series MAD the trust scorer divides by, constant
\* windows and windows with missing values included.
C13_MadAtLeastEpsilon ==
    out.op = "trust" =>
        /\ \A i \in DOMAIN out.df_base : \A m \in MetricIdx :
               ~IsNaN(out.df_base[i].mad[m])
                   => FGe(out.df_base[i].mad[m], R(MadEpsilon))
        /\ \A i \in DOMAIN df : \A m \in MetricIdx :
               ~ValueMissing(df[i], m) => FGe(OverallMad(df, m), R(MadEpsilon))

\* a scored series with a present mad over a constant window, one over a
\* window with a missing value, one above the epsilon, and a metric whose
\* overall MAD is the epsilon
C13_Witness ==
    /\ out.op = "trust"
    /\ \E i \in DOMAIN df, m \in MetricIdx :
           /\ ~IsNaN(out.df_base[i].mad[m])
           /\ Cardinality(WindowBefore(df, m, i, DefaultWindow)) = 1
           /\ NaN \notin WindowBefore(df, m, i, DefaultWindow)
           /\ out.df_base[i].mad[m] = R(MadEpsilon)
    /\ \E i \in DOMAIN df, m \in MetricIdx :
           /\ ~IsNaN(out.df_base[i].mad[m])
           /\ NaN \in WindowBefore(df, m, i, DefaultWindow)
    /\ \E i \in DOMAIN df, m \in MetricIdx :
           FGt(out.df_base[i].mad[m], R(MadEpsilon))
    /\ \E i \in DOMAIN df, m \in MetricIdx :
           ~ValueMissing(df[i], m) /\ OverallMad(df, m) = R(MadEpsilon)

(***************************************************************************)
(* Two callers of simulate_attack in one process.  simulate_attack has no  *)
(* parameter for a random source: a caller that wants given draws seeds    *)
(* the process-wide generators (as the tests do with np.random.seed) and   *)
(* then calls.  The steps of the two callers interleave.                   *)
(***************************************************************************)
\* the generator states a seed can set
SeedTapes == {t \in Tapes : t.start \in {0, 2} /\ t.stride = 1 /\ t.random = R(0) /\ t.noise = 1}

InitAttackShared ==
    /\ df \in AttackSeries
    /\ df2 = df
    /\ window = DefaultWindow
    /\ mode \in Modes
    /\ fraction \in Fractions
    /\ rng \in SeedTapes
    /\ out = None
    /\ out2 = None
    /\ global_df = <<>>
    /\ db = NoDb

\* random.seed(s); np.random.seed(s) by the first caller
SeedGenerator ==
    \E s \in SeedTapes :
        /\ out = None
        /\ rng' = s
        /\ out' = [op |-> "seeded", seed |-> s]
        /\ UNCHANGED <<df, df2, window, mode, fraction, out2, global_df, db>>

\* the same by the second caller
SeedGenerator2 ==
    \E s \in SeedTapes :
        /\ out2 = None
        /\ rng' = s
        /\ out2' = [op |-> "seeded", seed |-> s]
        /\ UNCHANGED <<df, df2, window, mode, fraction, out, global_df, db>>

\* simulate_attack(df, mode, fraction) by the first caller
SimulateAttackSeeded ==
    /\ out.op = "seeded"
    /\ LET r == simulate_attack(df, mode, fraction, rng)
       IN  /\ df' = r.df
           /\ rng' = r.rng
           /\ out' = [op |-> "attack", seed |-> out.seed, given |-> df,
                      raised |-> r.raised, perturbed |-> r.perturbed]
    /\ UNCHANGED <<df2, window, mode, fraction, out2, global_df, db>>

\* simulate_attack(df2, mode, fraction) by the second caller
SimulateAttackSeeded2 ==
    /\ out2.op = "seeded"
    /\ LET r == simulate_attack(df2, mode, fraction, rng)
       IN  /\ df2' = r.df
           /\ rng' = r.rng
           /\ out2' = [op |-> "attack", seed |-> out2.seed, given |-> df2,
                       raised |-> r.raised, perturbed |-> r.perturbed]
    /\ UNCHANGED <<df, window, mode, fraction, out, global_df, db>>

SpecAttackShared ==
    InitAttackShared /\ [][\/ SeedGenerator
                           \/ SeedGenerator2
                           \/ SimulateAttackSeeded
                           \/ SimulateAttackSeeded2]_vars

NoiseDays == 30

\* the days of the first stretch of a series
NoiseFirst == 15

\* fraction=0.3 (0x1.3333333333333p-2)
NoiseFraction == Double(Rep(3, 13), -2)

\* fully observed readings: level ones and one with a spike in sleep_hours
NoiseRows ==
    [level |-> [v \in 9..12 |-> [m \in MetricIdx |-> R(v)]],
     spike |-> <<R(16), R(10), R(10), R(10), R(10), R(10)>>]

\* a first stretch at one level, a second stretch at another (or the same)
\* and a last day
NoiseSeries ==
    {[i \in 1..NoiseDays |->
         Row("test", i, IF i <= NoiseFirst THEN NoiseRows.level[a]
                        ELSE IF i < NoiseDays THEN NoiseRows.level[b]
                        ELSE c)] :
        a \in {10, 11}, b \in {9, 10},
        c \in {NoiseRows.level[10], NoiseRows.level[12], NoiseRows.spike}}

\* the draws of the process-wide generator: where the samples start, whether
\* the samples of the metrics are shifted against each other, the noise
NoiseTapes ==
    [start : {0, 6, 12, 18, 24, NoiseDays - 1}, stride : {0, 1}, random : {R(0)},
     noise : {-1, 1}]

InitNoise ==
    /\ df \in NoiseSeries
    /\ df2 = <<>>
    /\ window = DefaultWindow
    /\ mode = "noise"
    /\ fraction = NoiseFraction
    /\ rng \in NoiseTapes
    /\ out = None
    /\ out2 = None
    /\ global_df = <<>>
    /\ db = NoDb

\* baseline_results = detector.compute_anomalies(self.df.copy())
ComputeAnomaliesBaseline ==
    /\ ComputeAnomalies
    /\ df2 = <<>>

\* df_noise = detector.simulate_attack(self.df.copy(), mode='noise', fraction=0.3)
SimulateNoise ==
    /\ out.op = "anomalies"
    /\ df2 = <<>>
    /\ LET r == simulate_attack(df, mode, fraction, rng)
       IN  /\ ~r.raised
           /\ df2' = r.perturbed
           /\ rng' = r.rng
    /\ UNCHANGED <<df, window, mode, fraction, out, out2, global_df, db>>

\* noise_results = detector.compute_anomalies(df_noise)
ComputeAnomaliesNoise ==
    /\ df2 # <<>>
    /\ out2 = None
    /\ LET df_base == build_robust_baseline(df2, DefaultWindow)
       IN  out2' = [op |-> "anomalies", df_base |-> df_base,
                    results |-> compute_anomalies(df_base)]
    /\ UNCHANGED <<df, df2, window, mode, fraction, rng, out, global_df, db>>

SpecNoise ==
    InitNoise /\ [][\/ ComputeAnomaliesBaseline
                    \/ SimulateNoise
                    \/ ComputeAnomaliesNoise]_vars

\* the days marked is_anomaly
Anoms(results) == {i \in DOMAIN results : results[i].is_anomaly}

\* the days with a cell that the simulation changed
PerturbedDays == {i \in DOMAIN df : df2[i].vals # df[i].vals}

\* day i and the window days before it hold no changed cell
Untouched(i) == \A j \in PerturbedDays : j < i - DefaultWindow \/ j > i

MaxUpserts == 3

StoreUsers == {"u1", "u2"}

\* the date column is TEXT: "2024-01-09" and "2024-01-10", as the digits of
\* the day
StoreDates == {<<0, 9>>, <<1, 0>>}

\* a < b for TEXT values of the same length (BINARY collation)
TextLess(a, b) ==
    \E i \in DOMAIN a :
        /\ a[i] < b[i]
        /\ \A j \in 1..(i - 1) : a[j] = b[j]

\* the metric fields of a request: all six, some omitted, none
StoreFields ==
    {[m \in MetricIdx |-> R(10)],
     [m \in {1, 3} |-> R(12)],
     [m \in {} |-> R(0)]}

\* the dicts upsert_record is called with
StoreRecs == [user_id : StoreUsers, date : StoreDates, fields : StoreFields]

\* rec.get(metric): None, stored as NULL, for an omitted metric
RecGet(rec, m) == IF m \in DOMAIN rec.fields THEN rec.fields[m] ELSE NaN

\* the table after init_db
EmptyDb == [rows |-> {}, seq |-> 0, log |-> <<>>]

SameKey(r, rec) == r.user_id = rec.user_id /\ r.date = rec.date

\* INSERT OR REPLACE: the row in conflict is deleted and a new row inserted
ReplaceRow(table, rec) ==
    [rows |-> {r \in table.rows : ~SameKey(r, rec)}
                \cup {[id |-> table.seq + 1, user_id |-> rec.user_id, date |-> rec.date,
                       vals |-> [m \in MetricIdx |-> RecGet(rec, m)]]},
     seq  |-> table.seq + 1]

\* INSERT ... ON CONFLICT(user_id, date) DO UPDATE SET <the six metrics>:
\* the row of the key keeps its id and takes the six values; without such a
\* row a new one gets the next id
UpsertRow(table, rec) ==
    IF \E r \in table.rows : SameKey(r, rec)
    THEN [rows |-> {IF SameKey(r, rec)
                    THEN [r EXCEPT !.vals = [m \in MetricIdx |-> RecGet(rec, m)]]
                    ELSE r : r \in table.rows},
          seq  |-> table.seq]
    ELSE [rows |-> table.rows
                     \cup {[id |-> table.seq + 1, user_id |-> rec.user_id,
                            date |-> rec.date,
                            vals |-> [m \in MetricIdx |-> RecGet(rec, m)]]},
          seq  |-> table.seq + 1]

\* SELECT id FROM health_records WHERE user_id=? AND date=?
SelectId(table, rec) == (CHOOSE r \in table.rows : SameKey(r, rec)).id

\* rows in ascending order of date
RECURSIVE OrderByDate(_)
OrderByDate(rows) ==
    IF rows = {} THEN <<>>
    ELSE LET first == CHOOSE r \in rows : \A q \in rows : ~TextLess(q.date, r.date)
         IN  <<first>> \o OrderByDate(rows \ {first})

\* SELECT * FROM health_records WHERE user_id=? ORDER BY date ASC
fetch_user_records(table, user_id) ==
    OrderByDate({r \in table.rows : r.user_id = user_id})

\* the first statement of upsert_record and its commit
Execute(call, rec) ==
    /\ call.op # "executed"
    /\ Len(db.log) < MaxUpserts
    /\ LET t == UpsertRow(db, rec)
       IN  db' = [rows |-> t.rows, seq |-> t.seq,
                  log  |-> Append(db.log, [rec |-> rec, id |-> SelectId(t, rec)])]

InitStore ==
    /\ df = <<>>
    /\ df2 = <<>>
    /\ window = DefaultWindow
    /\ mode = "missing"
    /\ fraction = DoubleZero
    /\ rng = <<>>
    /\ out = None
    /\ out2 = None
    /\ global_df = <<>>
    /\ db = EmptyDb

\* upsert_record(rec) of the first client, up to conn.commit()
UpsertRecordExecute ==
    \E rec \in StoreRecs :
        /\ Execute(out, rec)
        /\ out' = [op |-> "executed", rec |-> rec]
        /\ UNCHANGED <<df, df2, window, mode, fraction, rng, out2, global_df>>

\* upsert_record(rec) of the first client, from the SELECT to the return
UpsertRecordReturn ==
    /\ out.op = "executed"
    /\ out' = [op |-> "upsert", rec |-> out.rec, id |-> SelectId(db, out.rec)]
    /\ UNCHANGED <<df, df2, window, mode, fraction, rng, out2, global_df, db>>

\* the same two steps of the second client
UpsertRecordExecute2 ==
    \E rec \in StoreRecs :
        /\ Execute(out2, rec)
        /\ out2' = [op |-> "executed", rec |-> rec]
        /\ UNCHANGED <<df, df2, window, mode, fraction, rng, out, global_df>>

UpsertRecordReturn2 ==
    /\ out2.op = "executed"
    /\ out2' = [op |-> "upsert", rec |-> out2.rec, id |-> SelectId(db, out2.rec)]
    /\ UNCHANGED <<df, df2, window, mode, fraction, rng, out, global_df, db>>

\* fetch_user_records(user_id) of the second client
FetchUserRecords ==
    \E u \in StoreUsers :
        /\ out2.op # "executed"
        /\ out2' = [op |-> "fetch", user_id |-> u, rows |-> fetch_user_records(db, u)]
        /\ UNCHANGED <<df, df2, window, mode, fraction, rng, out, global_df, db>>

SpecStore ==
    InitStore /\ [][\/ UpsertRecordExecute
                    \/ UpsertRecordReturn
                    \/ UpsertRecordExecute2
                    \/ UpsertRecordReturn2
                    \/ FetchUserRecords]_vars

\* the committed upserts of the key of r, in commit order
UpsertsOf(r) == SelectSeq(db.log, LAMBDA e : SameKey(r, e.rec))

\* C16: after any sequence of upsert_record calls, repeated and interleaved
\* ones for the same user and date included, the table holds at most one row
\* per (user_id, date); the row's six metric values are those of the latest
\* upsert of its key, an omitted metric being missing; its id is the one
\* assigned at its first insertion; and fetch_user_records(u) returns only
\* rows of u, in ascending order of date, no date twice.
C16_OneRowPerKey ==
    /\ \A r, q \in db.rows : SameKey(r, q) => r = q
    /\ \A r \in db.rows :
           LET ups == UpsertsOf(r)
           IN  /\ Len(ups) > 0
               /\ \A m \in MetricIdx :
                      r.vals[m] = (IF m \in DOMAIN ups[Len(ups)].rec.fields
                                   THEN ups[Len(ups)].rec.fields[m] ELSE NaN)
               /\ r.id = ups[1].id
    /\ \A e \in {db.log[k] : k \in DOMAIN db.log} : \E r \in db.rows : SameKey(r, e.rec)
    /\ \A call \in {out, out2} :
           /\ call.op = "upsert" =>
                  \E r \in db.rows : SameKey(r, call.rec) /\ r.id = call.id
           /\ call.op = "fetch" =>
                  /\ \A k \in DOMAIN call.rows : call.rows[k].user_id = call.user_id
                  /\ \A k \in 1..(Len(call.rows) - 1) :
                         TextLess(call.rows[k].date, call.rows[k + 1].date)

\* a key upserted again with metrics omitted by the first client, which has
\* executed and not yet returned, after a second key of the same user with an
\* earlier date was inserted; the second client has fetched the two rows
C16_Witness ==
    /\ Len(db.log) = MaxUpserts
    /\ SameKey(db.log[1].rec, db.log[MaxUpserts].rec)
    /\ db.log[1].rec.fields # db.log[MaxUpserts].rec.fields
    /\ DOMAIN db.log[MaxUpserts].rec.fields = {1, 3}
    /\ out.op = "executed"
    /\ out.rec = db.log[MaxUpserts].rec
    /\ out2.op = "fetch"
    /\ Len(out2.rows) = 2
    /\ out2.rows[1].id > out2.rows[2].id
    /\ IsNaN(out2.rows[2].vals[2])

\* the days among the `window` days before day i that hold a value of metric m
Observed(frame, m, i) ==
    {j \in DOMAIN frame : i - window <= j /\ j < i /\ ~IsNaN(frame[j].vals[m])}

\* max(5, window/2)
Needed == IF window \div 2 > 5 THEN window \div 2 ELSE 5

\* the calls of build_robust_baseline made so far, with the series they took
BaselineCalls ==
    (IF out.op = "baseline" THEN {[frame |-> df, rows |-> out.rows]} ELSE {})
        \cup (IF out2.op = "baseline" THEN {[frame |-> df2, rows |-> out2.rows]} ELSE {})

\* C17: for every day and metric the baseline is present, median and mad
\* together, exactly when at least max(5, window/2) of the `window` days
\* before the day hold a value; otherwise both are absent (NaN, not zero); the
\* first max(5, window/2) days have no baseline.
C17_BaselinePresence ==
    \A call \in BaselineCalls :
        \A i \in DOMAIN call.frame : \A m \in MetricIdx :
            LET enough == Cardinality(Observed(call.frame, m, i)) >= Needed
                row    == call.rows[i]
            IN  /\ enough => (~IsNaN(row.median[m]) /\ ~IsNaN(row.mad[m]))
                /\ ~enough => (IsNaN(row.median[m]) /\ IsNaN(row.mad[m]))
                /\ i <= Needed => ~enough

\* a call with the small window where one day has a baseline from exactly the
\* needed number of values, its window holding a missing value, and a later
\* day has none because its window holds too many missing values
C17_Witness ==
    /\ out.op = "baseline"
    /\ window = SmallWindow
    /\ \E i \in DOMAIN df, m \in MetricIdx :
           /\ i > window
           /\ Cardinality(Observed(df, m, i)) = Needed
           /\ ~IsNaN(out.rows[i].median[m])
           /\ ~IsNaN(out.rows[i].mad[m])
    /\ \E i \in DOMAIN df, m \in MetricIdx :
           /\ i > Needed + 1
           /\ Cardinality(Observed(df, m, i)) < Needed
           /\ IsNaN(out.rows[i].median[m])
           /\ IsNaN(out.rows[i].mad[m])

\* the values of metric m on the days of Observed, in day order
ObservedValues(frame, m, i) ==
    NotNa(SubSeq(Column(frame, m), IF i - window < 1 THEN 1 ELSE i - window, i - 1))

\* max(1e-6, median of |x - median(xs)|) for values xs without NaN
FlooredMad(xs) ==
    LET m2  == Median2(Ticks(xs))
        mad == Q(Median2(Tab(LAMBDA k : Abs(2 * xs[k][1] - m2), Len(xs))), 4)
    IN  PyMax(R(MadEpsilon), mad)

PredictorWeights(m) == Weights(Corr(df), m, out.pick)

\* C20: when for a metric m the system of the other metrics' correlations has
\* no solution (singular) or holds undefined correlations (a constant or
\* never observed metric), the predictor weights of m are all exactly zero,
\* the call raises no error, and there is a trust entry for every metric and
\* day.
C20_UnsolvableGivesZeroWeights ==
    out.op = "trust" =>
        /\ \A m \in MetricIdx :
               (~SystemDefined(Corr(df), m) \/ out.pick = "singular")
                   => \A o \in MetricIdx \ {m} : PredictorWeights(m)[o] = R(0)
        /\ Len(out.entries) = Len(METRICS) * Len(df)
        /\ \A i \in DOMAIN df, m \in MetricIdx :
               /\ EntryAt(out.entries, i, m).metric = METRICS[m]
               /\ EntryAt(out.entries, i, m).date = df[i].date


\* C19: for every day and metric with a value, the trust score is
\* dist_score * res_score, with dist_score = clamp(1 - |z|/3, [0, 1]),
\* z = (value - median) / (1.4826 * mad) when the baseline is present and 0
\* when it is absent, res_score = clamp(1 - |value - predicted| /
\* (3 * overall_mad), [0, 1]), predicted the weighted sum of the other
\* metrics' values of the day (a missing one counted as 0); the drivers are,
\* in this order, "distribution shift" iff dist_score < 0.6 and
\* "cross-signal deviation" iff res_score < 0.6.  The weights are those of
\* the predictor: the solution of the correlation system, and zero where the
\* system has none.
C19_TrustScoreRule ==
    out.op = "trust" =>
        LET corr == Corr(df)
            clamp(x) == IF FLt(x, R(0)) THEN R(0) ELSE IF FGt(x, R(1)) THEN R(1) ELSE x
            weights(m) == IF SystemDefined(corr, m) THEN Weights(corr, m, out.pick)
                          ELSE [o \in MetricIdx \ {m} |-> R(0)]
            ws   == Tab(LAMBDA m : weights(m), Len(METRICS))
            mads == Tab(LAMBDA m : OverallMad(df, m), Len(METRICS))
        IN  \A i \in DOMAIN df, m \in MetricIdx :
                ~IsNaN(df[i].vals[m]) =>
                    LET row       == out.df_base[i]
                        val       == row.vals[m]
                        present   == ~IsNaN(row.median[m]) /\ ~IsNaN(row.mad[m])
                        z         == IF present
                                     THEN FDiv(FSub(val, row.median[m]),
                                               FMul(Q(7413, 5000), row.mad[m]))
                                     ELSE R(0)
                        dist      == clamp(FSub(R(1), FDiv(FAbs(z), R(3))))
                        others    == Others(m)
                        predicted == FSum(Tab(LAMBDA k :
                                                  IF IsNaN(row.vals[others[k]]) THEN R(0)
                                                  ELSE FMul(ws[m][others[k]],
                                                            row.vals[others[k]]),
                                              Len(others)))
                        res       == clamp(FSub(R(1), FDiv(FAbs(FSub(val, predicted)),
                                                           FMul(R(3), mads[m]))))
                        e         == EntryAt(out.entries, i, m)
                    IN  /\ e.score = FMul(dist, res)
                        /\ e.drivers =
                               (IF FLt(dist, Q(3, 5)) THEN <<"distribution shift">> ELSE <<>>)
                               \o (IF FLt(res, Q(3, 5)) THEN <<"cross-signal deviation">>
                                   ELSE <<>>)

(***************************************************************************)
(* Attack simulation: the selected cells (C21)                             *)
(***************************************************************************)
\* floor(n * f) for the values of n and f, without rounding
FloorOfProduct(n, f) ==
    IF n = 0 \/ f.man = <<>> THEN 0
    ELSE DoubleInt([man |-> TimesBits(f.man, n), exp |-> f.exp])

\* the days on which the call changed metric m
ChangedDays(m) ==
    {i \in DOMAIN out.given : out.perturbed[i].vals[m] # out.given[i].vals[m]}

\* mode "missing" with k days selected for each metric: some k distinct days
\* have the metric absent in the output, every other day has the input's value
MissingAtSelected(k) ==
    \A m \in MetricIdx :
        \E S \in SUBSET (DOMAIN out.given) :
            /\ Cardinality(S) = k
            /\ \A i \in DOMAIN out.given :
                   out.perturbed[i].vals[m] =
                       (IF i \in S THEN NaN ELSE out.given[i].vals[m])

\* C21 as stated: for n records and a fraction in [0, 1], simulate_attack
\* selects for each metric exactly floor(n * fraction) distinct days; in mode
\* "missing" the metric is absent on every selected day and equal to the input
\* on every other day, and in any mode at most floor(n * fraction) cells of a
\* metric differ from the input.
C21_FloorManyCellsSelected ==
    (out.op = "attack" /\ InUnitInterval(fraction)) =>
        LET k == FloorOfProduct(Len(out.given), fraction)
        IN  /\ ~out.raised
            /\ mode = "missing" => MissingAtSelected(k)
            /\ \A m \in MetricIdx : Cardinality(ChangedDays(m)) <= k

\* C21, amended: the number of days selected for each metric is
\* int(n * fraction) with the product rounded as the float arithmetic of the
\* call rounds it; in mode "missing" the metric is absent on every selected day
\* and equal to the input on every other day, and in any mode at most that
\* many cells of a metric differ from the input.
C21_IntManyCellsSelected ==
    (out.op = "attack" /\ InUnitInterval(fraction)) =>
        LET k == DoubleInt(DoubleTimes(Len(out.given), fraction))
        IN  /\ ~out.raised
            /\ mode = "missing" => MissingAtSelected(k)
            /\ \A m \in MetricIdx : Cardinality(ChangedDays(m)) <= k

\* C21 witness: a call in mode "missing" that selects two days for each
\* metric, not the same days for every metric; one metric was already absent
\* on a selected day, so that fewer than two of its cells differ.
C21_Witness ==
    /\ out.op = "attack"
    /\ mode = "missing"
    /\ ~out.raised
    /\ DoubleInt(DoubleTimes(Len(out.given), fraction)) = 2
    /\ \E m \in MetricIdx : Cardinality(ChangedDays(m)) = 2
    /\ \E m \in MetricIdx : Cardinality(ChangedDays(m)) = 1
    /\ \E m, o \in MetricIdx :
           /\ Cardinality(ChangedDays(m)) = 2
           /\ Cardinality(ChangedDays(o)) = 2
           /\ ChangedDays(m) # ChangedDays(o)

(***************************************************************************)
(* The scoring engine as classes: normalization.build_robust_baseline,     *)
(* AnomalyDetector.compute_anomalies, TrustEngine.compute_trust_scores.    *)
(* Columns are looked up by name, as the classes do: a frame has the       *)
(* columns COLUMNS, the metric in column k + 2 is vals[k] of a row.        *)
(***************************************************************************)
COLUMNS ==
    <<"user_id", "date", "sleep_hours", "resting_hr", "hrv", "steps", "calories", "weight">>

\* a metric list that names resting_hr before sleep_hours
DefaultMetricsSwapped ==
    <<"resting_hr", "sleep_hours", "hrv", "steps", "calories", "weight">>

\* AnomalyDetector.DEFAULT_METRICS and TrustEngine.DEFAULT_METRICS (self.metrics
\* of a detector or engine built without argument)
DEFAULT_METRICS == <<"sleep_hours", "resting_hr", "hrv", "steps", "calories", "weight">>

\* metric_cols = [col for col in df.columns if col not in {"date", "user_id"}]
MetricCols == SelectSeq(COLUMNS, LAMBDA c : c \notin {"date", "user_id"})

\* where the values of column c are in a row
ColPos(c) == (CHOOSE k \in DOMAIN COLUMNS : COLUMNS[k] = c) - 2

\* row.get(c) for a metric column c
RowGet(row, c) == row.vals[ColPos(c)]

\* normalization._mad
normalization_mad(series) ==
    IF \E i \in DOMAIN series : IsNaN(series[i]) THEN R(MadEpsilon)
    ELSE LET median == Median2(Ticks(series))
             dev    == Tab(LAMBDA i : Abs(2 * series[i][1] - median), Len(series))
             mad    == Q(Median2(dev), 4)
         IN  IF FGt(mad, R(MadEpsilon)) THEN mad ELSE R(MadEpsilon)

\* normalization.build_robust_baseline: median and mad hold the columns
\* <c>_median and <c>_mad in the order of metric_cols
normalization_build_robust_baseline(frame, w) ==
    LET metric_cols == MetricCols
        min_periods == IF w \div 2 > 5 THEN w \div 2 ELSE 5
        cols == Tab(LAMBDA k : Tab(LAMBDA i : RowGet(frame[i], metric_cols[k]), Len(frame)),
                    Len(metric_cols))
        absent == [median |-> NaN, mad |-> NaN]
        rolling(col, i) ==
            LET win == SubSeq(col, IF i - w + 1 < 1 THEN 1 ELSE i - w + 1, i)
            IN  IF Len(NotNa(win)) >= min_periods
                THEN [median |-> Median(win), mad |-> normalization_mad(win)]
                ELSE absent
        WithBaseline(i) ==
            LET stat == Tab(LAMBDA k : IF i = 1 THEN absent ELSE rolling(cols[k], i - 1),
                            Len(metric_cols))
            IN  [user_id |-> frame[i].user_id,
                 date    |-> frame[i].date,
                 vals    |-> frame[i].vals,
                 median  |-> Tab(LAMBDA k : stat[k].median, Len(metric_cols)),
                 mad     |-> Tab(LAMBDA k : stat[k].mad, Len(metric_cols))]
    IN  Tab(WithBaseline, Len(frame))

\* row.get(f"{m}_median") and row.get(f"{m}_mad") on a row of the baseline
BaselineGet(row, m) ==
    LET k == CHOOSE j \in DOMAIN MetricCols : MetricCols[j] = m
    IN  [median |-> row.median[k], mad |-> row.mad[k]]

\* AnomalyDetector.compute_anomalies from the frame build_robust_baseline
\* returned
AnomalyDetector_compute_anomalies(df_base) ==
    LET Result(row) ==
            LET val(m) == RowGet(row, m)
                med(m) == BaselineGet(row, m).median
                mad(m) == BaselineGet(row, m).mad
                kept   == SelectSeq(DEFAULT_METRICS,
                              LAMBDA m : ~(IsNaN(val(m)) \/ IsNaN(med(m)) \/ IsNaN(mad(m))))
                zs     == Tab(LAMBDA k : FDiv(FSub(val(kept[k]), med(kept[k])),
                                              FMul(Q(7413, 5000), mad(kept[k]))),
                              Len(kept))
                z_scores == Tab(LAMBDA k : FAbs(zs[k]), Len(kept))
                hit    == SelectSeq([k \in DOMAIN kept |-> k],
                                    LAMBDA k : FGt(FAbs(zs[k]), R(2)))
                drivers == Tab(LAMBDA j :
                                   [metric    |-> kept[hit[j]],
                                    value     |-> val(kept[hit[j]]),
                                    z_score   |-> zs[hit[j]],
                                    direction |-> IF FGt(zs[hit[j]], R(0)) THEN "high"
                                                  ELSE "low"],
                               Len(hit))
                score  == IF Len(z_scores) = 0 THEN R(0)
                          ELSE FAdd(FDiv(FSum(z_scores), R(Len(z_scores))),
                                    FMul(Q(1, 4), FMax(z_scores)))
                sorted == SortedDesc(drivers)
                top    == SubSeq(sorted, 1, IF Len(sorted) < 2 THEN Len(sorted) ELSE 2)
                part(d) ==
                    [metric    |-> CASE d.metric = "sleep_hours" -> "sleep hours"
                                     [] d.metric = "resting_hr" -> "resting hr"
                                     [] OTHER -> d.metric,
                     direction |-> IF d.direction = "high" THEN "above" ELSE "below",
                     z         |-> Round(d.z_score, 10)]
                narrative ==
                    IF FLt(score, R(1))
                    THEN [date |-> row.date, text |-> "Within normal variation.",
                          score |-> <<>>, parts |-> <<>>]
                    ELSE IF Len(drivers) = 0
                    THEN [date |-> row.date,
                          text |-> "Elevated deviation detected but no specific metric stands out.",
                          score |-> <<>>, parts |-> <<>>]
                    ELSE [date |-> row.date, text |-> "Anomaly",
                          score |-> <<Round(score, 100)>>,
                          parts |-> Tab(LAMBDA k : part(top[k]), Len(top))]
            IN  [user_id       |-> row.user_id,
                 date          |-> row.date,
                 anomaly_score |-> score,
                 is_anomaly    |-> FGe(score, Q(3, 2)),
                 drivers       |-> drivers,
                 narrative     |-> narrative]
    IN  Tab(LAMBDA i : Result(df_base[i]), Len(df_base))

\* TrustEngine.compute_trust_scores from the frame build_robust_baseline
\* returned and the outcome of np.linalg.solve
TrustEngine_compute_trust_scores(frame, df_baseline, pick) ==
    LET metrics == DEFAULT_METRICS
        corr    == Corr(frame)
        predictor_weights ==
            Tab(LAMBDA j : Weights(corr, ColPos(metrics[j]), pick), Len(metrics))
        overall_mad ==
            Tab(LAMBDA j : normalization_mad(
                               NotNa(Tab(LAMBDA i : RowGet(frame[i], metrics[j]), Len(frame)))),
                Len(metrics))
        Entry(n) ==
            LET row    == df_baseline[((n - 1) \div Len(metrics)) + 1]
                j      == ((n - 1) % Len(metrics)) + 1
                m      == metrics[j]
                val    == RowGet(row, m)
                median == BaselineGet(row, m).median
                mad    == BaselineGet(row, m).mad
                z      == IF IsNaN(median) \/ IsNaN(mad) THEN R(0)
                          ELSE FDiv(FSub(val, median), FMul(Q(7413, 5000), mad))
                dist_score == PyMax(R(0), FSub(R(1), PyMin(FDiv(FAbs(z), R(3)), R(1))))
                others == SelectSeq(metrics, LAMBDA o : o # m)
                preds  == Tab(LAMBDA k : IF ~IsNaN(RowGet(row, others[k]))
                                         THEN RowGet(row, others[k]) ELSE R(0),
                              Len(others))
                predicted == FSum(Tab(LAMBDA k :
                                          FMul(predictor_weights[j][ColPos(others[k])],
                                               preds[k]),
                                      Len(others)))
                residual  == FAbs(FSub(val, predicted))
                res_score == PyMax(R(0), FSub(R(1),
                                 PyMin(FDiv(residual, FMul(R(3), overall_mad[j])), R(1))))
            IN  IF IsNaN(val)
                THEN [metric |-> m, date |-> row.date, score |-> R(0),
                      drivers |-> <<"missing">>]
                ELSE [metric |-> m, date |-> row.date,
                      score |-> FMul(dist_score, res_score),
                      drivers |->
                          (IF FLt(dist_score, Q(3, 5)) THEN <<"distribution shift">>
                           ELSE <<>>)
                          \o (IF FLt(res_score, Q(3, 5)) THEN <<"cross-signal deviation">>
                              ELSE <<>>)]
    IN  Tab(Entry, Len(metrics) * Len(frame))

(***************************************************************************)
(* AnomalyDetector.compute_security_metrics                                *)
(***************************************************************************)
\* d in dates
InList(d, dates) == \E k \in DOMAIN dates : dates[k] = d

\* the sum of xs[lo..hi], by halves
RECURSIVE SumRange(_, _, _)
SumRange(xs, lo, hi) ==
    IF lo > hi THEN R(0)
    ELSE IF lo = hi THEN xs[lo]
    ELSE FAdd(SumRange(xs, lo, (lo + hi) \div 2), SumRange(xs, ((lo + hi) \div 2) + 1, hi))

\* np.mean of a list that is not empty
Mean(xs) == FDiv(SumRange(xs, 1, Len(xs)), R(Len(xs)))

\* the dates of the rows with every metric missing
TrueAnomalyDatesAllMissing(frame) ==
    LET hit == SelectSeq([i \in DOMAIN frame |-> i],
                         LAMBDA i : \A m \in MetricIdx : IsNaN(frame[i].vals[m]))
    IN  Tab(LAMBDA k : frame[hit[k]].date, Len(hit))

\* true_anomaly_dates: the dates of the rows with a missing metric, in row order
TrueAnomalyDates(frame) ==
    LET hit == SelectSeq([i \in DOMAIN frame |-> i],
                         LAMBDA i : \E m \in MetricIdx : IsNaN(frame[i].vals[m]))
    IN  Tab(LAMBDA k : frame[hit[k]].date, Len(hit))

\* detected_dates: the dates of the results with is_anomaly, in row order
DetectedDates(results) ==
    LET hit == SelectSeq([i \in DOMAIN results |-> i], LAMBDA i : results[i].is_anomaly)
    IN  Tab(LAMBDA k : results[hit[k]].date, Len(hit))

\* date_to_idx[d]: the dict keeps the last row of a date; row i has index i - 1
DateToIdx(frame, d) ==
    (CHOOSE i \in DOMAIN frame :
        /\ frame[i].date = d
        /\ \A j \in DOMAIN frame : frame[j].date = d => j <= i) - 1

\* the loop "for adate in true_anomaly_dates" from its k-th date on
RECURSIVE MttdVals(_, _, _, _)
MttdVals(frame, true_dates, detected_dates, k) ==
    IF k > Len(true_dates) THEN <<>>
    ELSE LET adate == true_dates[k]
             rest  == MttdVals(frame, true_dates, detected_dates, k + 1)
         IN  IF InList(adate, detected_dates) THEN <<R(0)>> \o rest
             ELSE LET a_idx  == DateToIdx(frame, adate)
                      future == {DateToIdx(frame, detected_dates[j]) :
                                    j \in DOMAIN detected_dates} \cap
                                {x \in 0..(Len(frame) - 1) : x > a_idx}
                  IN  IF future # {}
                      THEN <<R((CHOOSE x \in future : \A y \in future : x <= y) - a_idx)>>
                           \o rest
                      ELSE rest

\* compute_security_metrics(df) from the results of the two calls it makes,
\* trust_engine.compute_trust_scores(df) and self.compute_anomalies(df)
compute_security_metrics(frame, trust_entries, det_results) ==
    LET trust_vals     == Tab(LAMBDA k : trust_entries[k].score, Len(trust_entries))
        mean_trust     == IF Len(trust_vals) > 0 THEN Mean(trust_vals) ELSE R(1)
        true_dates     == TrueAnomalyDates(frame)
        detected_dates == DetectedDates(det_results)
        tp == Len(SelectSeq(detected_dates, LAMBDA d : InList(d, true_dates)))
        fp == Len(detected_dates) - tp
        fn == Len(SelectSeq(true_dates, LAMBDA d : ~InList(d, detected_dates)))
        mttd_vals == MttdVals(frame, true_dates, detected_dates, 1)
    IN  [attack_surface_score |-> FSub(R(1), mean_trust),
         signal_integrity     |-> mean_trust,
         anomaly_precision    |-> IF Len(true_dates) = 0 THEN R(1)
                                  ELSE IF tp + fp > 0 THEN Q(tp, tp + fp) ELSE R(0),
         anomaly_recall       |-> IF Len(true_dates) = 0 THEN R(1)
                                  ELSE IF tp + fn > 0 THEN Q(tp, tp + fn) ELSE R(0),
         mean_time_to_detect  |-> IF Len(true_dates) = 0 THEN R(0)
                                  ELSE IF Len(mttd_vals) > 0 THEN Mean(mttd_vals) ELSE R(0)]

\* compute_security_metrics is called on the series compute_anomalies is
\* called on
InitSecurity == InitCall(ScoreSeries)

\* one call of AnomalyDetector().compute_security_metrics(df)
ComputeSecurityMetrics ==
    \E pick \in SolvePicks :
        /\ out = None
        /\ \E df_base \in {normalization_build_robust_baseline(df, DefaultWindow)} :
           \E trust_entries \in {TrustEngine_compute_trust_scores(df, df_base, pick)} :
           \E det_results \in {AnomalyDetector_compute_anomalies(df_base)} :
               out' = [op |-> "security", pick |-> pick,
                       metrics |-> compute_security_metrics(df, trust_entries, det_results),
                       results |-> det_results]
        /\ UNCHANGED <<df, df2, window, mode, fraction, rng, out2, global_df, db>>

SpecSecurity == InitSecurity /\ [][ComputeSecurityMetrics]_vars

\* the days of the series with at least one missing metric
TrueAnomalyDays == {i \in DOMAIN df : \E m \in MetricIdx : IsNaN(df[i].vals[m])}

\* the days the detector flags
DetectedDays == {i \in DOMAIN out.results : out.results[i].is_anomaly}

\* the detected days after day i
LaterDetected(i) == {j \in DetectedDays : j > i}

\* the true-anomaly days that contribute to the mean: detected on the day, or
\* followed by a detected day
Contributing == {i \in TrueAnomalyDays : i \in DetectedDays \/ LaterDetected(i) # {}}

\* the contribution of a contributing day
Delay(i) ==
    IF i \in DetectedDays THEN 0
    ELSE (CHOOSE j \in LaterDetected(i) : \A k \in LaterDetected(i) : j <= k) - i

RECURSIVE TotalDelay(_)
TotalDelay(days) ==
    IF days = {} THEN 0
    ELSE LET i == CHOOSE d \in days : TRUE IN Delay(i) + TotalDelay(days \ {i})

\* C22: with at least one true-anomaly day (a day with a missing metric),
\* mean_time_to_detect is the mean of 0 for each true-anomaly day that is
\* itself detected and, for each other true-anomaly day, the distance to the
\* nearest later detected day; a true-anomaly day without later detection
\* contributes nothing, and the result is 0.0 without contributions.  With no
\* true-anomaly day, precision = recall = 1.0 and mean_time_to_detect = 0.0.
C22_MeanTimeToDetect ==
    out.op = "security" =>
        /\ TrueAnomalyDays # {} =>
               out.metrics.mean_time_to_detect =
                   (IF Contributing = {} THEN R(0)
                    ELSE Q(TotalDelay(Contributing), Cardinality(Contributing)))
        /\ TrueAnomalyDays = {} =>
               /\ out.metrics.anomaly_precision = R(1)
               /\ out.metrics.anomaly_recall = R(1)
               /\ out.metrics.mean_time_to_detect = R(0)

\* C22 witness: a series with a true-anomaly day that is detected on the day,
\* one that is detected only later, and one that is never detected, so that
\* the mean is taken over fewer days than there are true anomalies.
C22_Witness ==
    /\ out.op = "security"
    /\ \E i \in TrueAnomalyDays : i \in DetectedDays
    /\ \E i \in TrueAnomalyDays : i \notin DetectedDays /\ LaterDetected(i) # {}
    /\ \E i \in TrueAnomalyDays : i \notin DetectedDays /\ LaterDetected(i) = {}
    /\ FGt(out.metrics.mean_time_to_detect, R(0))

(***************************************************************************)
(* The module-level functions and the class methods on the same series     *)
(* (C23): out holds the result of a module-level function, out2 the result *)
(* of a class method.                                                      *)
(***************************************************************************)
\* the series both implementations are called on: those of TrustSeries that
\* begin with three days of the first reading
AgreeSeries ==
    {s \in TrustSeries : \A i \in 1..3 : s[i].vals = HistRows[1]}

InitAgree == InitCall(AgreeSeries)

\* one call of AnomalyDetector().compute_anomalies(df)
DetectorComputeAnomalies ==
    /\ out2 = None
    /\ \E df_base \in {normalization_build_robust_baseline(df, DefaultWindow)} :
           out2' = [op |-> "anomalies", df_base |-> df_base,
                    results |-> AnomalyDetector_compute_anomalies(df_base)]
    /\ UNCHANGED <<df, df2, window, mode, fraction, rng, out, global_df, db>>

\* one call of TrustEngine().compute_trust_scores(df)
EngineComputeTrustScores ==
    \E pick \in SolvePicks :
        /\ out2 = None
        /\ \E df_baseline \in {normalization_build_robust_baseline(df, DefaultWindow)} :
               out2' = [op |-> "trust", pick |-> pick, df_base |-> df_baseline,
                        entries |-> TrustEngine_compute_trust_scores(df, df_baseline, pick)]
        /\ UNCHANGED <<df, df2, window, mode, fraction, rng, out, global_df, db>>

SpecAgree ==
    InitAgree /\ [][ComputeAnomalies \/ ComputeTrustScores
                    \/ DetectorComputeAnomalies \/ EngineComputeTrustScores]_vars

\* C23: on the same series, model.compute_anomalies returns the list of
\* anomaly results that AnomalyDetector.compute_anomalies returns (same order,
\* scores, flags, drivers and narratives), and model.compute_trust_scores the
\* list of trust entries that TrustEngine.compute_trust_scores returns (same
\* order, scores and drivers; the linear solve, a function of the series, has
\* the same outcome in both).
C23_ImplementationsAgree ==
    /\ (out.op = "anomalies" /\ out2.op = "anomalies") => out2.results = out.results
    /\ (out.op = "trust" /\ out2.op = "trust" /\ out2.pick = out.pick)
           => out2.entries = out.entries

\* C23 witness: both implementations have scored the same series with finite
\* predictor weights that are not all zero; some value is missing, some trust
\* score lies strictly between 0 and 1, and some value has a driver.
C23_Witness ==
    /\ out.op = "trust"
    /\ out2.op = "trust"
    /\ out.pick = "mixed"
    /\ out2.pick = "mixed"
    /\ \E k \in DOMAIN out2.entries : out2.entries[k].drivers = <<"missing">>
    /\ \E k \in DOMAIN out2.entries :
           /\ FGt(out2.entries[k].score, R(0))
           /\ FLt(out2.entries[k].score, R(1))
    /\ \E k \in DOMAIN out2.entries :
           out2.entries[k].drivers = <<"distribution shift">>

====
